------------------------------ MODULE Spec2Model ------------------------------
(***************************************************************************)
(* Grant authorization model of the Cassandra provider: configuration     *)
(* validation (schema validators and parseData), statement templating     *)
(* (html/template execution of the GRANT / REVOKE / SELECT templates) and  *)
(* the grant handlers resourceGrantCreate / Read / Delete / Update.        *)
(*                                                                         *)
(* Strings are TLA+ strings; a character is a string of length one.  An    *)
(* optional configuration attribute is a sequence of length 0 (not set in  *)
(* the configuration) or 1 (set, possibly to the empty string).            *)
(***************************************************************************)
EXTENDS Integers, Sequences, FiniteSets, TLC

VARIABLES
    resourceData,    \* *schema.ResourceData: the resource's attributes
    keyspaceNameMatches, \* keyspaceRegex.MatchString(keyspace_name)
    providerConfig,  \* *ProviderConfig (meta): the configured system keyspace
    phase,           \* "config" | "validated" | "rejected": schema validation
    diags,           \* diagnostics of schema validation
    id,              \* d.Id(): "" while the resource is not in the state
    out,             \* result of the last handler call
    issued,          \* every statement text handed to session.Query so far
    role_permissions, \* the database's table <system keyspace>.role_permissions
    grants,          \* several grant resources on one database: their d and id
    rolesTable,      \* the database's table <system keyspace>.roles
    roleResource,    \* the role resource: its d (attributes) and its id
    reconcile,       \* two grants reconciled concurrently: each one's position
                     \* and the table as it would be without the other
    defaultSession,  \* gocqltable's package-level default session
    tableOps,        \* concurrent table operations: position, session, result
    openSessions,    \* the sessions created and not yet closed
    keyspaceTables   \* the tables of the keyspace in the database

\* The database table and the resources the grant handlers share it between
catalogVars == <<role_permissions, grants>>

\* The database table of the roles and the role resource
roleVars == <<rolesTable, roleResource>>

\* The table operations, their sessions and the tables of the database
tableVars == <<defaultSession, tableOps, openSessions, keyspaceTables>>

vars == <<resourceData, keyspaceNameMatches, providerConfig, phase, diags, id, out, issued, catalogVars, roleVars, reconcile, tableVars>>

\* No table operation has started
TableIdle ==
    /\ defaultSession = 0
    /\ tableOps = << >>
    /\ openSessions = {}
    /\ keyspaceTables = {}

-----------------------------------------------------------------------------
(* Characters and string helpers                                           *)

Char(s, i) == SubSeq(s, i, i)

Letters == {"a", "b", "c", "d", "e", "f", "g", "h", "i", "j", "k", "l", "m", "n", "o", "p", "q", "r", "s", "t", "u", "v", "w", "x", "y", "z", "A", "B", "C", "D", "E", "F", "G", "H", "I", "J", "K", "L", "M", "N", "O", "P", "Q", "R", "S", "T", "U", "V", "W", "X", "Y", "Z"}

Digits == {"0", "1", "2", "3", "4", "5", "6", "7", "8", "9"}

Min(a, b) == IF a < b THEN a ELSE b

RECURSIVE Repeat(_, _)
Repeat(c, n) ==
    IF n = 0 THEN ""
    ELSE IF n % 2 = 0 THEN LET half == Repeat(c, n \div 2) IN half \o half
    ELSE c \o Repeat(c, n - 1)

\* strings.Join(elems, sep)
RECURSIVE Join(_, _)
Join(elems, sep) ==
    IF Len(elems) = 0 THEN ""
    ELSE IF Len(elems) = 1 THEN elems[1]
    ELSE elems[1] \o sep \o Join(Tail(elems), sep)

\* d.Get(key).(string): the zero value "" when the attribute is not set
Get(d, key) == IF Len(d[key]) = 0 THEN "" ELSE d[key][1]

IsSet(d, key) == Len(d[key]) > 0

-----------------------------------------------------------------------------
(* Constants of the grant resource                                         *)

privilegeAll       == "all"
privilegeCreate    == "create"
privilegeAlter     == "alter"
privilegeDrop      == "drop"
privilegeSelect    == "select"
privilegeModify    == "modify"
privilegeAuthorize == "authorize"
privilegeDescribe  == "describe"
privilegeExecute   == "execute"

resourceAllFunctions           == "all functions"
resourceAllFunctionsInKeyspace == "all functions in keyspace"
resourceFunction               == "function"
resourceAllKeyspaces           == "all keyspaces"
resourceKeyspace               == "keyspace"
resourceTable                  == "table"
resourceAllRoles               == "all roles"
resourceRole                   == "role"
resourceRoles                  == "roles"
resourceMbean                  == "mbean"
resourceMbeans                 == "mbeans"
resourceAllMbeans              == "all mbeans"

identifierFunctionName == "function_name"
identifierTableName    == "table_name"
identifierMbeanName    == "mbean_name"
identifierMbeanPattern == "mbean_pattern"
identifierRoleName     == "role_name"
identifierKeyspaceName == "keyspace_name"
identifierGrantee      == "grantee"
identifierPrivilege    == "privilege"
identifierResourceType == "resource_type"

\* validation.StringLenBetween(1, 256)
MinNameLen == 1

MaxNameLen == 256

\* the repetition {1,256} of validIdentifierRegex
identifierMaxLen == 256

\* the repetition {0,255} of validTableNameRegex
tableNameMaxTail == 255

allPrivileges ==
    << privilegeSelect, privilegeCreate, privilegeAlter, privilegeDrop,
       privilegeModify, privilegeAuthorize, privilegeDescribe, privilegeExecute >>

allResources ==
    << resourceAllFunctions, resourceAllFunctionsInKeyspace, resourceFunction,
       resourceAllKeyspaces, resourceKeyspace, resourceTable, resourceAllRoles,
       resourceRole, resourceRoles, resourceMbean, resourceMbeans,
       resourceAllMbeans >>

privilegeToResourceTypesMap ==
    (privilegeAll :> << resourceAllFunctions, resourceAllFunctionsInKeyspace,
                        resourceFunction, resourceAllKeyspaces, resourceKeyspace,
                        resourceTable, resourceAllRoles, resourceRole >>)
 @@ (privilegeCreate :> << resourceAllKeyspaces, resourceKeyspace,
                           resourceAllFunctions, resourceAllFunctionsInKeyspace,
                           resourceAllRoles >>)
 @@ (privilegeAlter :> << resourceAllKeyspaces, resourceKeyspace, resourceTable,
                          resourceAllFunctions, resourceAllFunctionsInKeyspace,
                          resourceFunction, resourceAllRoles, resourceRole >>)
 @@ (privilegeDrop :> << resourceKeyspace, resourceTable, resourceAllFunctions,
                         resourceAllFunctionsInKeyspace, resourceFunction,
                         resourceAllRoles, resourceRole >>)
 @@ (privilegeSelect :> << resourceAllKeyspaces, resourceKeyspace, resourceTable,
                           resourceAllMbeans, resourceMbeans, resourceMbean >>)
 @@ (privilegeModify :> << resourceAllKeyspaces, resourceKeyspace, resourceTable,
                           resourceAllMbeans, resourceMbeans, resourceMbean >>)
 @@ (privilegeAuthorize :> << resourceAllKeyspaces, resourceKeyspace,
                              resourceTable, resourceFunction,
                              resourceAllFunctions,
                              resourceAllFunctionsInKeyspace, resourceAllRoles,
                              resourceRoles >>)
 @@ (privilegeDescribe :> << resourceAllRoles, resourceAllMbeans >>)
 @@ (privilegeExecute :> << resourceAllFunctions,
                            resourceAllFunctionsInKeyspace, resourceFunction >>)

\* privilegeToResourceTypesMap[privilege]: nil (length 0) for a missing key
allowedResourceTypes(privilege) ==
    IF privilege \in DOMAIN privilegeToResourceTypesMap
    THEN privilegeToResourceTypesMap[privilege]
    ELSE << >>

validResources ==
    { resourceAllFunctions, resourceAllFunctionsInKeyspace, resourceFunction,
      resourceAllKeyspaces, resourceKeyspace, resourceTable, resourceAllRoles,
      resourceRole, resourceRoles, resourceMbean, resourceMbeans,
      resourceAllMbeans }

resourcesThatRequireKeyspaceQualifier ==
    << resourceAllFunctionsInKeyspace, resourceFunction, resourceKeyspace,
       resourceTable >>

resourceTypeToIdentifier ==
    (resourceFunction :> identifierFunctionName)
 @@ (resourceMbean    :> identifierMbeanName)
 @@ (resourceMbeans   :> identifierMbeanPattern)
 @@ (resourceTable    :> identifierTableName)
 @@ (resourceRole     :> identifierRoleName)

\* Mutant: the map has no entry for the role resource type
identifierKeyOf_withoutRole(resourceType) ==
    IF resourceType \in DOMAIN resourceTypeToIdentifier \ {resourceRole}
    THEN resourceTypeToIdentifier[resourceType]
    ELSE ""

\* resourceTypeToIdentifier[resourceType]: "" for a missing key
identifierKeyOf(resourceType) ==
    IF resourceType \in DOMAIN resourceTypeToIdentifier
    THEN resourceTypeToIdentifier[resourceType]
    ELSE ""

-----------------------------------------------------------------------------
(* Attribute validators of the resource schema                             *)

\* regexp `^[^"]{1,256}$`
validIdentifierRegex(s) ==
    /\ Len(s) >= 1
    /\ Len(s) <= identifierMaxLen
    /\ \A i \in 1..Len(s) : Char(s, i) # "\""

\* regexp `^[a-zA-Z0-9][a-zA-Z0-9_]{0,255}`: MatchString reports a match when
\* some substring matches; ^ pins its start, nothing pins its end, so a match
\* is any prefix of 1..256 characters of the right shape.
validTableNameRegex(s) ==
    \E n \in 1..Min(Len(s), 1 + tableNameMaxTail) :
        /\ Char(s, 1) \in Letters \cup Digits
        /\ \A i \in 2..n : Char(s, i) \in Letters \cup Digits \cup {"_"}

\* regexp.Compile(pattern) for the patterns of MbeanPatterns: it fails on an
\* unbalanced parenthesis ("missing closing )", "unexpected )").
RECURSIVE parenDepth(_, _, _)
parenDepth(s, i, depth) ==
    IF depth < 0 THEN depth
    ELSE IF i > Len(s) THEN depth
    ELSE parenDepth(s, i + 1,
                    IF Char(s, i) = "(" THEN depth + 1
                    ELSE IF Char(s, i) = ")" THEN depth - 1
                    ELSE depth)

regexpCompiles(pattern) == parenDepth(pattern, 1, 0) = 0

Diagnostic(path, summary, detail) ==
    [path |-> path, summary |-> summary, detail |-> detail]

\* validIdentifier(i, path, identifierName, regularExpression)
validIdentifier(identifier, path, identifierName, matches) ==
    IF identifierName # "" /\ ~matches
    THEN { Diagnostic(path, "Not valid value",
                      identifier \o " is not a valid " \o identifierName \o " name") }
    ELSE {}

\* validation.StringLenBetween(min, max)
StringLenBetween(min, max, v, path) ==
    IF Len(v) < min \/ Len(v) > max
    THEN { Diagnostic(path, "Bad length",
                      "expected length of " \o path \o " to be in the range (1 - 256)") }
    ELSE {}

validatePrivilege(privilege) ==
    IF Len(allowedResourceTypes(privilege)) <= 0
    THEN { Diagnostic(identifierPrivilege, "Invalid privilege",
                      privilege \o " not one of " \o Join(allPrivileges, ", ")) }
    ELSE {}

validateResourceType(resourceType) ==
    IF resourceType \notin validResources
    THEN { Diagnostic(identifierResourceType, "Not valid resource type",
                      resourceType \o " is not a valid resourceType, must be one of "
                          \o Join(allResources, ", ")) }
    ELSE {}

\* keyspaceRegex is declared outside this file; whether it matches the
\* configured keyspace name is an input (ksMatches).
validateKeyspaceName(keyspaceName, ksMatches) ==
    IF ~ksMatches
    THEN { Diagnostic(identifierKeyspaceName, "Not valid keyspace name",
                      keyspaceName \o " is not a valid keyspace name") }
    ELSE {}

validateMbeanPattern(mbeanPatternRaw) ==
    IF ~regexpCompiles(mbeanPatternRaw)
    THEN { Diagnostic(identifierMbeanPattern, "Not valid mbean",
                      mbeanPatternRaw \o " is not a valid pattern") }
    ELSE {}

\* The ConflictsWith lists of the schema
ConflictsWith ==
    (identifierKeyspaceName :>
        {identifierRoleName, identifierMbeanName, identifierMbeanPattern})
 @@ (identifierFunctionName :>
        {identifierTableName, identifierRoleName, identifierMbeanName,
         identifierMbeanPattern})
 @@ (identifierTableName :>
        {identifierFunctionName, identifierRoleName, identifierMbeanName,
         identifierMbeanPattern})
 @@ (identifierRoleName :>
        {identifierFunctionName, identifierTableName, identifierMbeanName,
         identifierMbeanPattern, identifierKeyspaceName})
 @@ (identifierMbeanName :>
        {identifierFunctionName, identifierTableName, identifierRoleName,
         identifierMbeanPattern, identifierKeyspaceName})
 @@ (identifierMbeanPattern :>
        {identifierFunctionName, identifierTableName, identifierRoleName,
         identifierMbeanName, identifierKeyspaceName})

OptionalAttributes == DOMAIN ConflictsWith

\* An attribute that is set conflicts with every attribute of its list that
\* is set too.
conflictDiagnostics(d) ==
    { Diagnostic(k, "Conflicting configuration arguments",
                 k \o ": conflicts with " \o c) :
        <<k, c>> \in { p \in OptionalAttributes \X OptionalAttributes :
                         /\ IsSet(d, p[1])
                         /\ p[2] \in ConflictsWith[p[1]]
                         /\ IsSet(d, p[2]) } }

\* The validator of one attribute; it runs only when the attribute is set.
attributeDiagnostics(d, ksMatches, k) ==
    IF ~IsSet(d, k) THEN {}
    ELSE IF k = identifierPrivilege THEN validatePrivilege(Get(d, k))
    ELSE IF k = identifierGrantee THEN StringLenBetween(MinNameLen, MaxNameLen, Get(d, k), k)
    ELSE IF k = identifierResourceType THEN validateResourceType(Get(d, k))
    ELSE IF k = identifierKeyspaceName THEN validateKeyspaceName(Get(d, k), ksMatches)
    ELSE IF k = identifierFunctionName
        THEN validIdentifier(Get(d, k), k, "function name", validIdentifierRegex(Get(d, k)))
    ELSE IF k = identifierTableName
        THEN validIdentifier(Get(d, k), k, "table name", validTableNameRegex(Get(d, k)))
    ELSE IF k = identifierRoleName THEN StringLenBetween(MinNameLen, MaxNameLen, Get(d, k), k)
    ELSE IF k = identifierMbeanName
        THEN validIdentifier(Get(d, k), k, "mbean name", validIdentifierRegex(Get(d, k)))
    ELSE validateMbeanPattern(Get(d, k))

RequiredAttributes == {identifierPrivilege, identifierGrantee, identifierResourceType}

Attributes == RequiredAttributes \cup OptionalAttributes

\* Schema validation of a configuration of resourceCassandraGrant
schemaDiagnostics(d, ksMatches) ==
    UNION { attributeDiagnostics(d, ksMatches, k) : k \in Attributes }
        \cup conflictDiagnostics(d)

-----------------------------------------------------------------------------
(* parseData                                                               *)

Grant(privilege, resourceType, grantee, keyspace, identifier) ==
    [ Privilege |-> privilege, ResourceType |-> resourceType,
      Grantee |-> grantee, Keyspace |-> keyspace, Identifier |-> identifier ]

\* Mutant: the loop does not compare the resource type
matchFound_anyAllowed(allowed, resourceType) == Len(allowed) > 0

\* The loop over allowedResouceTypesForPrivilege
matchFound(allowed, resourceType) ==
    \E i \in 1..Len(allowed) : allowed[i] = resourceType

\* Mutant: the list lacks the keyspace resource type
requiresKeyspaceQualifier_withoutKeyspace(resourceType) ==
    resourceType \in {resourceAllFunctionsInKeyspace, resourceFunction, resourceTable}

\* The loop over resourcesThatRequireKeyspaceQualifier
requiresKeyspaceQualifier(resourceType) ==
    \E i \in 1..Len(resourcesThatRequireKeyspaceQualifier) :
        resourceType = resourcesThatRequireKeyspaceQualifier[i]

\* Mutant: the keyspace name is read whatever the resource type
keyspaceNameOf_always(d, resourceType) == Get(d, identifierKeyspaceName)

\* keyspaceName: read only when the resource type requires the qualifier
keyspaceNameOf(d, resourceType) ==
    IF requiresKeyspaceQualifier(resourceType)
    THEN Get(d, identifierKeyspaceName)
    ELSE ""

\* identifier: read from the attribute the resource type maps to, if any
identifierOf(d, resourceType) ==
    IF identifierKeyOf(resourceType) # ""
    THEN Get(d, identifierKeyOf(resourceType))
    ELSE ""

\* A result is (grant, err): grant is << >> for nil, err is "" for nil.
parseData(d) ==
    LET privilege     == Get(d, identifierPrivilege)
        grantee       == Get(d, identifierGrantee)
        resourceType  == Get(d, identifierResourceType)
        allowed       == allowedResourceTypes(privilege)
        keyspaceName  == keyspaceNameOf(d, resourceType)
        identifierKey == identifierKeyOf(resourceType)
        identifier    == identifierOf(d, resourceType)
    IN  IF Len(allowed) <= 0
        THEN [ grant |-> << >>,
               err |-> resourceType \o " resource not applicable for privilege "
                          \o privilege ]
        ELSE IF ~matchFound(allowed, resourceType)
        THEN [ grant |-> << >>,
               err |-> resourceType \o " resource not applicable for privilege "
                          \o privilege \o " - valid resourceTypes are "
                          \o Join(allowed, ", ") ]
        ELSE IF requiresKeyspaceQualifier(resourceType) /\ keyspaceName = ""
        THEN [ grant |-> << >>,
               err |-> "keyspace name must be set for resourceType " \o resourceType ]
        ELSE IF identifierKey # "" /\ identifier = ""
        THEN [ grant |-> << >>,
               err |-> identifierKey \o " needs to be set when resourceType = "
                          \o resourceType ]
        ELSE [ grant |-> << Grant(privilege, resourceType, grantee, keyspaceName,
                                  identifier) >>,
               err |-> "" ]

-----------------------------------------------------------------------------
(* Statement templates, executed by html/template                          *)

TextNode(s)       == [ kind |-> "text",   text |-> s,  fields |-> << >>, body |-> << >> ]
ActionNode(f)     == [ kind |-> "action", text |-> "", fields |-> << f >>, body |-> << >> ]
IfNode(fs, body)  == [ kind |-> "if",     text |-> "", fields |-> fs, body |-> body ]

\* Mutant: the separator is emitted whenever the identifier is non-empty
deleteGrantRawTemplate_dotBeforeIdentifier ==
    << TextNode("REVOKE "), ActionNode("Privilege"), TextNode(" ON "),
       ActionNode("ResourceType"), TextNode(" "),
       IfNode(<< "Keyspace" >>,
              << TextNode("\""), ActionNode("Keyspace"), TextNode("\"") >>),
       IfNode(<< "Identifier" >>, << TextNode(".") >>),
       IfNode(<< "Identifier" >>,
              << TextNode("\""), ActionNode("Identifier"), TextNode("\"") >>),
       TextNode(" FROM \""), ActionNode("Grantee"), TextNode("\"") >>

\* `REVOKE {{ .Privilege }} ON {{.ResourceType}} {{if .Keyspace }}"{{ .Keyspace}}"{{end}}
\*  {{if and .Keyspace .Identifier}}.{{end}}{{if .Identifier}}"{{.Identifier}}"{{end}}
\*  FROM "{{.Grantee}}"`
deleteGrantRawTemplate ==
    << TextNode("REVOKE "), ActionNode("Privilege"), TextNode(" ON "),
       ActionNode("ResourceType"), TextNode(" "),
       IfNode(<< "Keyspace" >>,
              << TextNode("\""), ActionNode("Keyspace"), TextNode("\"") >>),
       IfNode(<< "Keyspace", "Identifier" >>, << TextNode(".") >>),
       IfNode(<< "Identifier" >>,
              << TextNode("\""), ActionNode("Identifier"), TextNode("\"") >>),
       TextNode(" FROM \""), ActionNode("Grantee"), TextNode("\"") >>

createGrantRawTemplate ==
    << TextNode("GRANT "), ActionNode("Privilege"), TextNode(" ON "),
       ActionNode("ResourceType"), TextNode(" "),
       IfNode(<< "Keyspace" >>,
              << TextNode("\""), ActionNode("Keyspace"), TextNode("\"") >>),
       IfNode(<< "Keyspace", "Identifier" >>, << TextNode(".") >>),
       IfNode(<< "Identifier" >>,
              << TextNode("\""), ActionNode("Identifier"), TextNode("\"") >>),
       TextNode(" TO \""), ActionNode("Grantee"), TextNode("\"") >>

\* `SELECT permissions FROM {{.SystemKeyspace}}.role_permissions where
\*  resource='data/{{if .Keyspace }}{{ .Keyspace }}{{end}}{{if and .Keyspace
\*  .Identifier}}/{{end}}{{if .Identifier}}{{.Identifier}}{{end}}' and
\*  role='{{.Grantee}}' ALLOW FILTERING;`
templateReadGrant ==
    << TextNode("SELECT permissions FROM "), ActionNode("SystemKeyspace"),
       TextNode(".role_permissions where resource='data/"),
       IfNode(<< "Keyspace" >>, << ActionNode("Keyspace") >>),
       IfNode(<< "Keyspace", "Identifier" >>, << TextNode("/") >>),
       IfNode(<< "Identifier" >>, << ActionNode("Identifier") >>),
       TextNode("' and role='"), ActionNode("Grantee"),
       TextNode("' ALLOW FILTERING;") >>

\* html/template escapes every action of a template in HTML text context
\* with its htmlReplacementTable.
htmlReplacementTable ==
    ("\"" :> "&#34;") @@ ("&" :> "&amp;") @@ ("'" :> "&#39;")
 @@ ("+" :> "&#43;") @@ ("<" :> "&lt;") @@ (">" :> "&gt;")

\* Every character of s is replaced by its entry of the table, if it has one
RECURSIVE htmlEscaper(_)
htmlEscaper(s) ==
    IF s = "" THEN ""
    ELSE IF Len(s) = 1
    THEN (IF s \in DOMAIN htmlReplacementTable THEN htmlReplacementTable[s] ELSE s)
    ELSE LET half == Len(s) \div 2
         IN  htmlEscaper(SubSeq(s, 1, half)) \o htmlEscaper(SubSeq(s, half + 1, Len(s)))

\* The value an action inserts into the output
evalAction(value) == htmlEscaper(value)

\* Template.Execute(buffer, data)
RECURSIVE Execute(_, _)
Execute(nodes, data) ==
    IF Len(nodes) = 0 THEN ""
    ELSE LET n == Head(nodes)
             piece ==
                 IF n.kind = "text" THEN n.text
                 ELSE IF n.kind = "action" THEN evalAction(data[n.fields[1]])
                 ELSE IF \A i \in 1..Len(n.fields) : data[n.fields[i]] # ""
                      THEN Execute(n.body, data)
                      ELSE ""
         IN piece \o Execute(Tail(nodes), data)

templateCreate(grant) == Execute(createGrantRawTemplate, grant)

templateDelete(grant) == Execute(deleteGrantRawTemplate, grant)

\* The data of the read template: the Grant's fields and SystemKeyspace
readGrantData(grant, systemKeyspace) ==
    [ Privilege |-> grant.Privilege, ResourceType |-> grant.ResourceType,
      Grantee |-> grant.Grantee, Keyspace |-> grant.Keyspace,
      Identifier |-> grant.Identifier, SystemKeyspace |-> systemKeyspace ]

readGrantQuery(grant, systemKeyspace) ==
    Execute(templateReadGrant, readGrantData(grant, systemKeyspace))

-----------------------------------------------------------------------------
(* The grant handlers.  The cluster is an external collaborator: whether   *)
(* CreateSession, Exec and the iterator succeed, and how many rows the     *)
(* existence query returns, are inputs of each call.  A handler returns at *)
(* the first call that fails, so the input is the position of that call    *)
(* among the cluster calls of the handler (0: none fails).                 *)

sessionCreationError == "gocql: unable to create session"
queryError           == "gocql: query failed"

\* hash(s): hex of sha256, kept as an uninterpreted injective image
hash(s) == "sha256(" \o s \o ")"

\* fmt.Sprintf("%+v", grant) of a *Grant
formatGrant(grant) ==
    "&{Privilege:" \o grant.Privilege \o " ResourceType:" \o grant.ResourceType
        \o " Grantee:" \o grant.Grantee \o " Keyspace:" \o grant.Keyspace
        \o " Identifier:" \o grant.Identifier \o "}"

\* Mutant: the session is created before the attributes are parsed
resourceGrantExists_sessionFirst(d, meta, sessionOk, rowCount, closeOk) ==
    LET parsed == parseData(d)
        query  == readGrantQuery(parsed.grant[1], meta.SystemKeyspaceName)
    IN  IF ~sessionOk
        THEN [ exists |-> FALSE, err |-> sessionCreationError, stmts |-> << >>,
               sessions |-> 1 ]
        ELSE IF parsed.err # ""
        THEN [ exists |-> FALSE, err |-> parsed.err, stmts |-> << >>, sessions |-> 1 ]
        ELSE IF ~closeOk
        THEN [ exists |-> FALSE, err |-> queryError, stmts |-> << query >>,
               sessions |-> 1 ]
        ELSE [ exists |-> rowCount > 0, err |-> "", stmts |-> << query >>,
               sessions |-> 1 ]

\* resourceGrantExists(d, meta): (exists, err) and what it did on the way
resourceGrantExists(d, meta, sessionOk, rowCount, closeOk) ==
    LET parsed == parseData(d)
        query  == readGrantQuery(parsed.grant[1], meta.SystemKeyspaceName)
    IN  IF parsed.err # ""
        THEN [ exists |-> FALSE, err |-> parsed.err, stmts |-> << >>, sessions |-> 0 ]
        ELSE IF ~sessionOk
        THEN [ exists |-> FALSE, err |-> sessionCreationError, stmts |-> << >>,
               sessions |-> 1 ]
        ELSE IF ~closeOk
        THEN [ exists |-> FALSE, err |-> queryError, stmts |-> << query >>,
               sessions |-> 1 ]
        ELSE [ exists |-> rowCount > 0, err |-> "", stmts |-> << query >>,
               sessions |-> 1 ]

\* d.Set(key, value)
SetAttr(d, key, value) == [ d EXCEPT ![key] = << value >> ]

\* The d.Set calls at the end of resourceGrantRead
setGrantAttributes(d, grant) ==
    LET d1 == SetAttr(d, identifierResourceType, grant.ResourceType)
        d2 == SetAttr(d1, identifierGrantee, grant.Grantee)
        d3 == SetAttr(d2, identifierPrivilege, grant.Privilege)
        d4 == IF grant.Keyspace # ""
              THEN SetAttr(d3, identifierKeyspaceName, grant.Keyspace)
              ELSE d3
    IN  IF grant.Identifier # ""
        THEN SetAttr(d4, resourceTypeToIdentifier[grant.ResourceType], grant.Identifier)
        ELSE d4

\* Mutant: a grant that is absent is reported as gone, without an error
grantRead_absentIsGone(d, meta, sessionOk, rowCount, closeOk) ==
    LET e      == resourceGrantExists(d, meta, sessionOk, rowCount, closeOk)
        parsed == parseData(d)
    IN  IF e.err # ""
        THEN [ d |-> d, err |-> e.err, stmts |-> e.stmts, sessions |-> e.sessions ]
        ELSE IF ~e.exists
        THEN [ d |-> d, err |-> "", stmts |-> e.stmts, sessions |-> e.sessions ]
        ELSE IF parsed.err # ""
        THEN [ d |-> d, err |-> parsed.err, stmts |-> e.stmts, sessions |-> e.sessions ]
        ELSE [ d |-> setGrantAttributes(d, parsed.grant[1]), err |-> "",
               stmts |-> e.stmts, sessions |-> e.sessions ]

\* resourceGrantRead(ctx, d, meta)
grantRead(d, meta, sessionOk, rowCount, closeOk) ==
    LET e      == resourceGrantExists(d, meta, sessionOk, rowCount, closeOk)
        parsed == parseData(d)
    IN  IF e.err # ""
        THEN [ d |-> d, err |-> e.err, stmts |-> e.stmts, sessions |-> e.sessions ]
        ELSE IF ~e.exists
        THEN [ d |-> d, err |-> "Grant does not exist", stmts |-> e.stmts,
               sessions |-> e.sessions ]
        ELSE IF parsed.err # ""
        THEN [ d |-> d, err |-> parsed.err, stmts |-> e.stmts, sessions |-> e.sessions ]
        ELSE [ d |-> setGrantAttributes(d, parsed.grant[1]), err |-> "",
               stmts |-> e.stmts, sessions |-> e.sessions ]

\* Mutant: the diagnostics of the read after the GRANT are dropped
grantCreate_ignoresRead(d, oldId, meta, sessionOk, execOk, readSessionOk, rowCount, closeOk) ==
    LET parsed == parseData(d)
        query  == templateCreate(parsed.grant[1])
        read   == grantRead(d, meta, readSessionOk, rowCount, closeOk)
    IN  IF parsed.err # ""
        THEN [ d |-> d, id |-> oldId, err |-> parsed.err, stmts |-> << >>,
               sessions |-> 0 ]
        ELSE IF ~sessionOk
        THEN [ d |-> d, id |-> oldId, err |-> sessionCreationError, stmts |-> << >>,
               sessions |-> 1 ]
        ELSE IF ~execOk
        THEN [ d |-> d, id |-> oldId, err |-> queryError, stmts |-> << query >>,
               sessions |-> 1 ]
        ELSE [ d |-> read.d, id |-> hash(formatGrant(parsed.grant[1])),
               err |-> "", stmts |-> << query >> \o read.stmts,
               sessions |-> 1 + read.sessions ]

\* Mutant: a GRANT that failed is executed a second time
grantCreate_retries(d, oldId, meta, sessionOk, execOk, readSessionOk, rowCount, closeOk) ==
    LET parsed == parseData(d)
        query  == templateCreate(parsed.grant[1])
        read   == grantRead(d, meta, readSessionOk, rowCount, closeOk)
    IN  IF parsed.err # ""
        THEN [ d |-> d, id |-> oldId, err |-> parsed.err, stmts |-> << >>,
               sessions |-> 0 ]
        ELSE IF ~sessionOk
        THEN [ d |-> d, id |-> oldId, err |-> sessionCreationError, stmts |-> << >>,
               sessions |-> 1 ]
        ELSE IF ~execOk
        THEN [ d |-> d, id |-> oldId, err |-> queryError, stmts |-> << query, query >>,
               sessions |-> 1 ]
        ELSE [ d |-> read.d, id |-> hash(formatGrant(parsed.grant[1])),
               err |-> read.err, stmts |-> << query >> \o read.stmts,
               sessions |-> 1 + read.sessions ]

\* resourceGrantCreate(ctx, d, meta)
grantCreate(d, oldId, meta, sessionOk, execOk, readSessionOk, rowCount, closeOk) ==
    LET parsed == parseData(d)
        query  == templateCreate(parsed.grant[1])
        read   == grantRead(d, meta, readSessionOk, rowCount, closeOk)
    IN  IF parsed.err # ""
        THEN [ d |-> d, id |-> oldId, err |-> parsed.err, stmts |-> << >>,
               sessions |-> 0 ]
        ELSE IF ~sessionOk
        THEN [ d |-> d, id |-> oldId, err |-> sessionCreationError, stmts |-> << >>,
               sessions |-> 1 ]
        ELSE IF ~execOk
        THEN [ d |-> d, id |-> oldId, err |-> queryError, stmts |-> << query >>,
               sessions |-> 1 ]
        ELSE [ d |-> read.d, id |-> hash(formatGrant(parsed.grant[1])),
               err |-> read.err, stmts |-> << query >> \o read.stmts,
               sessions |-> 1 + read.sessions ]

\* Mutant: the delete looks for the grant before it revokes it
grantDelete_existsFirst(d, meta, sessionOk, execOk) ==
    LET parsed == parseData(d)
        query  == templateDelete(parsed.grant[1])
        select == readGrantQuery(parsed.grant[1], meta.SystemKeyspaceName)
    IN  IF parsed.err # ""
        THEN [ err |-> parsed.err, stmts |-> << >>, sessions |-> 0 ]
        ELSE IF ~sessionOk
        THEN [ err |-> sessionCreationError, stmts |-> << >>, sessions |-> 1 ]
        ELSE IF ~execOk
        THEN [ err |-> queryError, stmts |-> << select, query >>, sessions |-> 1 ]
        ELSE [ err |-> "", stmts |-> << select, query >>, sessions |-> 1 ]

\* resourceGrantDelete(ctx, d, meta)
grantDelete(d, meta, sessionOk, execOk) ==
    LET parsed == parseData(d)
        query  == templateDelete(parsed.grant[1])
    IN  IF parsed.err # ""
        THEN [ err |-> parsed.err, stmts |-> << >>, sessions |-> 0 ]
        ELSE IF ~sessionOk
        THEN [ err |-> sessionCreationError, stmts |-> << >>, sessions |-> 1 ]
        ELSE IF ~execOk
        THEN [ err |-> queryError, stmts |-> << query >>, sessions |-> 1 ]
        ELSE [ err |-> "", stmts |-> << query >>, sessions |-> 1 ]

\* Mutant: the update returns no diagnostics
grantUpdate_noError(d, meta) ==
    [ err |-> "", stmts |-> << >>, sessions |-> 0 ]

\* resourceGrantUpdate(ctx, d, meta)
grantUpdate(d, meta) ==
    [ err |-> "Updating of grants is not supported", stmts |-> << >>, sessions |-> 0 ]

Range(seq) == { seq[i] : i \in 1..Len(seq) }

Result(op, r) ==
    [ op |-> op, err |-> r.err, stmts |-> r.stmts, sessions |-> r.sessions ]

-----------------------------------------------------------------------------
(* Inputs                                                                  *)

\* Number of identifier attributes (function_name, table_name, role_name,
\* mbean_name, mbean_pattern) a configuration of the value sweep sets
MaxIdentifierAttributes == 2

LongName == Repeat("a", MaxNameLen + 1)

Privileges == DOMAIN privilegeToResourceTypesMap \cup {"grant"}

ResourceTypes == validResources \cup {"view"}

Unset == { << >> }

Values(S) == { << v >> : v \in S }

IdentifierAttributes ==
    { identifierFunctionName, identifierTableName, identifierRoleName,
      identifierMbeanName, identifierMbeanPattern }

identifierCount(d) == Cardinality({ k \in IdentifierAttributes : IsSet(d, k) })

Configurations(privileges, resourceTypes, grantees, keyspaces, functions, tables, roles, mbeans, patterns, limit) ==
    { d \in [ privilege     : Values(privileges),
              grantee       : Values(grantees),
              resource_type : Values(resourceTypes),
              keyspace_name : Unset \cup Values(keyspaces),
              function_name : Unset \cup Values(functions),
              table_name    : Unset \cup Values(tables),
              role_name     : Unset \cup Values(roles),
              mbean_name    : Unset \cup Values(mbeans),
              mbean_pattern : Unset \cup Values(patterns) ] :
        identifierCount(d) <= limit }

\* Every (privilege, resource type) pair with plain values of the rest and
\* at most one identifier attribute
PairSweep ==
    Configurations(Privileges, ResourceTypes, {"alice"}, {"ks1"}, {"f1"},
                   {"t1"}, {"r1"}, {"m1"}, {"m.*"}, 1)

\* A few pairs with every value of the rest: empty, over-long, quoted and
\* HTML-special strings
ValueSweep ==
    Configurations({privilegeSelect},
                   {resourceTable, resourceRole, resourceMbeans, resourceAllKeyspaces},
                   {"alice", "a\"b", "o'b<&>+", "", Repeat("g", MaxNameLen), LongName},
                   {"ks1"},
                   {"f1", "f\"1"},
                   {"t1", "", "_t", "t'1", "t\"1", LongName},
                   {"r1", ""},
                   {"m1"},
                   {"m.*", "", "("},
                   MaxIdentifierAttributes)

SystemKeyspaceNames == {"system_auth", "system"}

-----------------------------------------------------------------------------
(* State machine                                                           *)

NoResult == [ op |-> "none", err |-> "", stmts |-> << >>, sessions |-> 0 ]

\* No role resource is configured
NoRole == [ d |-> << >>, id |-> "" ]

Init ==
    /\ resourceData \in PairSweep \cup ValueSweep
    /\ keyspaceNameMatches \in (IF IsSet(resourceData, identifierKeyspaceName)
                                THEN BOOLEAN ELSE {TRUE})
    /\ providerConfig \in [ SystemKeyspaceName : SystemKeyspaceNames ]
    /\ phase = "config"
    /\ diags = {}
    /\ id = ""
    /\ out = NoResult
    /\ issued = {}
    /\ role_permissions = {}
    /\ grants = << >>
    /\ rolesTable = {}
    /\ reconcile = << >>
    /\ TableIdle
    /\ roleResource = NoRole

\* Schema validation of the configuration, before any handler runs
SchemaValidate ==
    /\ phase = "config"
    /\ diags' = schemaDiagnostics(resourceData, keyspaceNameMatches)
    /\ phase' = IF diags' = {} THEN "validated" ELSE "rejected"
    /\ UNCHANGED <<resourceData, keyspaceNameMatches, providerConfig, id, out, issued, catalogVars, roleVars, reconcile, tableVars>>

Create ==
    /\ phase = "validated"
    /\ id = ""
    /\ \E fault \in 0..4, rowCount \in 0..1 :
         \E r \in { grantCreate(resourceData, id, providerConfig, fault # 1,
                                 fault # 2, fault # 3, rowCount, fault # 4) } :
             /\ resourceData' = r.d
             /\ id' = r.id
             /\ out' = Result("create", r)
             /\ issued' = issued \cup Range(r.stmts)
    /\ UNCHANGED <<keyspaceNameMatches, providerConfig, phase, diags, catalogVars, roleVars, reconcile, tableVars>>

Read ==
    /\ phase = "validated"
    /\ id # ""
    /\ \E fault \in 0..2, rowCount \in 0..1 :
         \E r \in { grantRead(resourceData, providerConfig, fault # 1, rowCount,
                               fault # 2) } :
             /\ resourceData' = r.d
             /\ out' = Result("read", r)
             /\ issued' = issued \cup Range(r.stmts)
    /\ UNCHANGED <<keyspaceNameMatches, providerConfig, phase, diags, id, catalogVars, roleVars, reconcile, tableVars>>

\* After a Delete without error the resource leaves the state (its id is
\* cleared by the caller of the handler).
Delete ==
    /\ phase = "validated"
    /\ id # ""
    /\ \E fault \in 0..2 :
         \E r \in { grantDelete(resourceData, providerConfig, fault # 1, fault # 2) } :
             /\ id' = IF r.err = "" THEN "" ELSE id
             /\ out' = Result("delete", r)
             /\ issued' = issued \cup Range(r.stmts)
    /\ UNCHANGED <<resourceData, keyspaceNameMatches, providerConfig, phase, diags, catalogVars, roleVars, reconcile, tableVars>>

Update ==
    /\ phase = "validated"
    /\ id # ""
    /\ out' = Result("update", grantUpdate(resourceData, providerConfig))
    /\ UNCHANGED <<resourceData, keyspaceNameMatches, providerConfig, phase, diags, id, issued, catalogVars, roleVars, reconcile, tableVars>>

Next == SchemaValidate \/ Create \/ Read \/ Delete \/ Update

Spec == Init /\ [][Next]_vars

-----------------------------------------------------------------------------
(* Properties                                                              *)

HasPrefix(text, prefix) ==
    Len(text) >= Len(prefix) /\ SubSeq(text, 1, Len(prefix)) = prefix

HasSubstring(text, sub) ==
    \E i \in 1..(Len(text) - Len(sub) + 1) : SubSeq(text, i, i + Len(sub) - 1) = sub

Privilege    == Get(resourceData, identifierPrivilege)
ResourceType == Get(resourceData, identifierResourceType)
Grantee      == Get(resourceData, identifierGrantee)
KeyspaceName == Get(resourceData, identifierKeyspaceName)

\* The compatibility table read as a relation
Compatible(privilege, resourceType) ==
    /\ privilege \in DOMAIN privilegeToResourceTypesMap
    /\ resourceType \in Range(privilegeToResourceTypesMap[privilege])

KeyspaceScoped ==
    {resourceKeyspace, resourceTable, resourceFunction, resourceAllFunctionsInKeyspace}

\* The attribute holding the identifier of a resource type, as a relation
IdentifierKind ==
    { <<resourceFunction, "function_name">>, <<resourceTable, "table_name">>,
      <<resourceRole, "role_name">>, <<resourceMbean, "mbean_name">>,
      <<resourceMbeans, "mbean_pattern">> }

HandlerRan == out.op \in {"create", "read", "delete"}

\* A handler that failed validation: it returned err, opened no session and
\* issued no statement
HandlerRejected(err) ==
    HandlerRan => out.err = err /\ out.stmts = << >> /\ out.sessions = 0

\* C1: for a (privilege, resource type) pair that is not in the compatibility
\* table, parseData returns an error and no Grant, whatever the other
\* attributes are, and no handler issues a statement or sets the id.
C1_IncompatiblePairRejected ==
    ~Compatible(Privilege, ResourceType) =>
        /\ parseData(resourceData).grant = << >>
        /\ parseData(resourceData).err # ""
        /\ HandlerRejected(parseData(resourceData).err)
        /\ issued = {}
        /\ id = ""

\* Create ran on (select, role) and failed naming the valid resource types
C1_Witness ==
    /\ out.op = "create"
    /\ Privilege = privilegeSelect
    /\ ResourceType = resourceRole
    /\ out.err = "role resource not applicable for privilege select - valid resourceTypes are all keyspaces, keyspace, table, all mbeans, mbeans, mbean"

\* C2: for a keyspace-scoped resource type with a compatible privilege and
\* an empty keyspace qualifier, validation fails with the missing-keyspace
\* error and returns no Grant.
C2_EmptyKeyspaceRejected ==
    ( /\ ResourceType \in KeyspaceScoped
      /\ Compatible(Privilege, ResourceType)
      /\ KeyspaceName = "" ) =>
        /\ parseData(resourceData).grant = << >>
        /\ parseData(resourceData).err =
               "keyspace name must be set for resourceType " \o ResourceType
        /\ HandlerRejected("keyspace name must be set for resourceType " \o ResourceType)
        /\ issued = {}
        /\ id = ""

\* Create ran on (drop, keyspace) without a keyspace name
C2_Witness ==
    /\ out.op = "create"
    /\ Privilege = privilegeDrop
    /\ ResourceType = resourceKeyspace
    /\ KeyspaceName = ""
    /\ out.err = "keyspace name must be set for resourceType keyspace"

\* Validation of a configuration: the schema validators, then parseData
Accepts(d, ksMatches) ==
    schemaDiagnostics(d, ksMatches) = {} /\ parseData(d).err = ""

WithoutKeyspace(d) == [ d EXCEPT ![identifierKeyspaceName] = << >> ]

\* A configuration of a resource type that is not keyspace-scoped which is
\* valid but for the non-empty, well-formed keyspace qualifier it carries
SuperfluousKeyspace ==
    /\ ResourceType \in validResources \ KeyspaceScoped
    /\ KeyspaceName # ""
    /\ keyspaceNameMatches
    /\ Accepts(WithoutKeyspace(resourceData), TRUE)

\* No statement issued names a keyspace or an identifier: the resource of a
\* GRANT or REVOKE is empty and the resource of the existence query is data/
NoResourceSegment(text) ==
    \/ HasPrefix(text, "GRANT " \o Privilege \o " ON " \o ResourceType \o "  TO \"")
    \/ HasPrefix(text, "REVOKE " \o Privilege \o " ON " \o ResourceType \o "  FROM \"")
    \/ HasSubstring(text, " where resource='data/' and role='")

KeyspaceIgnored ==
    /\ phase # "rejected"
    /\ parseData(resourceData).err = ""
    /\ parseData(resourceData).grant[1].Keyspace = ""
    /\ \A text \in issued : ~HasSubstring(text, KeyspaceName)

\* C3 as stated: for every resource type that is not keyspace-scoped, a
\* non-empty keyspace qualifier is accepted and ignored.
C3_Original == SuperfluousKeyspace => KeyspaceIgnored

\* C3, amended: for every resource type that is not keyspace-scoped and a
\* configuration that sets none of role_name, mbean_name and mbean_pattern
\* (the attributes keyspace_name conflicts with), a non-empty well-formed
\* keyspace qualifier is accepted, the Grant carries an empty keyspace and
\* no statement issued has a keyspace segment.
C3_KeyspaceIgnoredUnlessConflict ==
    ( /\ SuperfluousKeyspace
      /\ \A k \in ConflictsWith[identifierKeyspaceName] : ~IsSet(resourceData, k) ) =>
        /\ KeyspaceIgnored
        /\ \A text \in issued : NoResourceSegment(text)

\* GRANT, existence query and REVOKE were all issued for a resource type
\* that is not keyspace-scoped, with keyspace_name set
C3_Witness ==
    /\ SuperfluousKeyspace
    /\ phase = "validated"
    /\ Cardinality(issued) = 3
    /\ out.op = "delete"
    /\ out.err = ""

\* C4: for a resource type that maps to an identifier kind, validation (past
\* the compatibility and keyspace checks) fails with the missing-identifier
\* error when the attribute of that kind is empty, and otherwise the
\* Grant's identifier is that attribute's value; for a resource type with
\* no mapping the Grant's identifier is empty whatever attributes are set.
C4_IdentifierOfKind ==
    ( /\ Compatible(Privilege, ResourceType)
      /\ ResourceType \in KeyspaceScoped => KeyspaceName # "" ) =>
        /\ \A kind \in IdentifierKind :
             kind[1] = ResourceType =>
               IF Get(resourceData, kind[2]) = ""
               THEN /\ parseData(resourceData).grant = << >>
                    /\ parseData(resourceData).err =
                           kind[2] \o " needs to be set when resourceType = " \o ResourceType
                    /\ HandlerRejected(parseData(resourceData).err)
                    /\ issued = {}
               ELSE /\ parseData(resourceData).err = ""
                    /\ parseData(resourceData).grant[1].Identifier =
                           Get(resourceData, kind[2])
        /\ (\A kind \in IdentifierKind : kind[1] # ResourceType) =>
               /\ parseData(resourceData).err = ""
               /\ parseData(resourceData).grant[1].Identifier = ""

\* Create ran on a table grant without table_name
C4_Witness ==
    /\ out.op = "create"
    /\ ResourceType = resourceTable
    /\ KeyspaceName = "ks1"
    /\ ~IsSet(resourceData, identifierTableName)
    /\ out.err = "table_name needs to be set when resourceType = table"

WellFormedTableName(s) ==
    /\ Len(s) >= 1
    /\ Len(s) <= 256
    /\ Char(s, 1) \in Letters \cup Digits
    /\ \A i \in 2..Len(s) : Char(s, i) \in Letters \cup Digits \cup {"_"}

\* C5: a table name is accepted by validation only if the whole string is 1
\* to 256 characters long, starts with a letter or digit and continues with
\* letters, digits and underscores.
C5_TableNameWholeString ==
    (phase = "validated" /\ IsSet(resourceData, identifierTableName)) =>
        WellFormedTableName(Get(resourceData, identifierTableName))

\* C6: a grantee is accepted by validation only if it is 1 to 256
\* characters long and has no double quote; no statement is rendered for a
\* grantee that has one.
C6_GranteeWithoutQuote ==
    /\ phase = "validated" =>
           Len(Grantee) >= 1 /\ Len(Grantee) <= 256 /\ ~HasSubstring(Grantee, "\"")
    /\ HasSubstring(Grantee, "\"") => issued = {}

Quoted(s) == "\"" \o s \o "\""

\* The configuration keeps to the formats C5 and C6 state for the table name
\* and the grantee
StatedFormats ==
    /\ ~HasSubstring(Grantee, "\"")
    /\ IsSet(resourceData, identifierTableName) =>
           WellFormedTableName(Get(resourceData, identifierTableName))

\* The statement text as the rendering rules state it
StatementText(verb, preposition, grant) ==
    verb \o " " \o grant.Privilege \o " ON " \o grant.ResourceType \o " "
        \o (IF grant.Keyspace # "" THEN Quoted(grant.Keyspace) ELSE "")
        \o (IF grant.Keyspace # "" /\ grant.Identifier # "" THEN "." ELSE "")
        \o (IF grant.Identifier # "" THEN Quoted(grant.Identifier) ELSE "")
        \o " " \o preposition \o " " \o Quoted(grant.Grantee)

GrantTexts  == { text \in issued : HasPrefix(text, "GRANT ") }
RevokeTexts == { text \in issued : HasPrefix(text, "REVOKE ") }
SelectTexts == { text \in issued : HasPrefix(text, "SELECT ") }

\* C7: the GRANT text of a validated Grant is GRANT <privilege> ON
\* <resourceType>, the quoted keyspace iff it is non-empty, a dot iff both
\* are non-empty, the quoted identifier iff it is non-empty, then TO
\* "<grantee>".  (Stated for the configurations of StatedFormats, so that a
\* violation does not rest on a value C5 or C6 excludes.)
C7_GrantText ==
    StatedFormats =>
        \A text \in GrantTexts :
            text = StatementText("GRANT", "TO", parseData(resourceData).grant[1])

\* The scenario of C7: (select, table, ks1, t1, alice)
C7_Scenario ==
    ( /\ Privilege = privilegeSelect /\ ResourceType = resourceTable
      /\ Grantee = "alice" /\ KeyspaceName = "ks1"
      /\ Get(resourceData, identifierTableName) = "t1" ) =>
        \A text \in GrantTexts : text = "GRANT select ON table \"ks1\".\"t1\" TO \"alice\""

\* text is verb, a middle part, the preposition between spaces, and a tail
SplitsAs(text, verb, preposition, k) ==
    /\ HasPrefix(text, verb \o " ")
    /\ k > Len(verb) + 1
    /\ k + Len(preposition) + 1 <= Len(text)
    /\ SubSeq(text, k, k + Len(preposition) + 1) = " " \o preposition \o " "

Middle(text, verb, k) == SubSeq(text, Len(verb) + 2, k - 1)

TailAfter(text, preposition, k) == SubSeq(text, k + Len(preposition) + 2, Len(text))

\* C8: the GRANT and the REVOKE text of a Grant are the same but for GRANT
\* against REVOKE and TO against FROM, and a handler that runs again
\* renders the same text again.
C8_RevokeMirrorsGrant ==
    /\ Cardinality(GrantTexts) <= 1
    /\ Cardinality(RevokeTexts) <= 1
    /\ \A g \in GrantTexts : \A r \in RevokeTexts :
         \E k \in 1..Len(g) :
            /\ SplitsAs(g, "GRANT", "TO", k)
            /\ r = "REVOKE " \o Middle(g, "GRANT", k) \o " FROM "
                       \o TailAfter(g, "TO", k)

\* GRANT and REVOKE were issued for a Grant with keyspace and identifier
C8_Witness ==
    /\ GrantTexts # {}
    /\ RevokeTexts # {}
    /\ parseData(resourceData).grant[1].Keyspace # ""
    /\ parseData(resourceData).grant[1].Identifier # ""
    /\ out.op = "delete"

\* C9: grantee, keyspace qualifier and identifier of a validated Grant are
\* in the GRANT and REVOKE text character for character, each in double
\* quotes.  (Stated for the configurations of StatedFormats.)
C9_ValuesVerbatim ==
    StatedFormats =>
        \A text \in GrantTexts \cup RevokeTexts :
            LET grant == parseData(resourceData).grant[1]
            IN  /\ HasSubstring(text, Quoted(grant.Grantee))
                /\ grant.Keyspace # "" => HasSubstring(text, Quoted(grant.Keyspace))
                /\ grant.Identifier # "" => HasSubstring(text, Quoted(grant.Identifier))

\* C10: the existence query of a validated Grant selects from
\* <systemKeyspace>.role_permissions the rows whose resource is data/, the
\* keyspace, a slash iff keyspace and identifier are non-empty, the
\* identifier, and whose role is the grantee.  (Stated for the
\* configurations of StatedFormats.)
C10_ExistenceQueryText ==
    StatedFormats =>
      \A text \in SelectTexts :
        LET grant == parseData(resourceData).grant[1]
        IN  text = "SELECT permissions FROM " \o providerConfig.SystemKeyspaceName
                     \o ".role_permissions where resource='data/" \o grant.Keyspace
                     \o (IF grant.Keyspace # "" /\ grant.Identifier # "" THEN "/" ELSE "")
                     \o grant.Identifier \o "' and role='" \o grant.Grantee
                     \o "' ALLOW FILTERING;"

-----------------------------------------------------------------------------
(* The database behind session.Query: the table                            *)
(* <system keyspace>.role_permissions, one row per (role, resource) with   *)
(* the set of permissions the role holds on the resource.  The table is    *)
(* kept as the set of its <<role, resource, permission>> cells; a row      *)
(* whose set is empty is no row.  GRANT and REVOKE name their resource the *)
(* way the database's authorizer does (data, data/<keyspace>,              *)
(* data/<keyspace>/<table>, functions..., roles..., mbean...).             *)

\* The name under which the database files the resource of a statement
resourceName(resourceType, keyspace, identifier) ==
    CASE resourceType = resourceAllKeyspaces -> "data"
      [] resourceType = resourceKeyspace -> "data/" \o keyspace
      [] resourceType = resourceTable -> "data/" \o keyspace \o "/" \o identifier
      [] resourceType = resourceAllFunctions -> "functions"
      [] resourceType = resourceAllFunctionsInKeyspace -> "functions/" \o keyspace
      [] resourceType = resourceFunction -> "functions/" \o keyspace \o "/" \o identifier
      [] resourceType = resourceAllRoles -> "roles"
      [] resourceType = resourceRole -> "roles/" \o identifier
      [] resourceType = resourceAllMbeans -> "mbean"
      [] resourceType = resourceMbean -> "mbean/" \o identifier
      [] resourceType = resourceMbeans -> "mbean/" \o identifier
      [] OTHER -> resourceType

\* The resource clauses the database's grammar has: a function needs its
\* signature, an mbean a string literal, and there is no resource `roles`
statementAccepted(resourceType) ==
    resourceType \in { resourceAllKeyspaces, resourceKeyspace, resourceTable,
                       resourceAllFunctions, resourceAllFunctionsInKeyspace,
                       resourceAllRoles, resourceRole, resourceAllMbeans }

\* The permissions a privilege of a statement stands for
permissionsOf(privilege, resourceType) ==
    IF privilege = privilegeAll
    THEN { p \in Range(allPrivileges) : resourceType \in Range(privilegeToResourceTypesMap[p]) }
    ELSE { privilege }

\* The cells a GRANT or REVOKE rendered from grant is about: the values are
\* in the statement as the template wrote them
statementCells(grant) ==
    { << evalAction(grant.Grantee),
         resourceName(grant.ResourceType, evalAction(grant.Keyspace),
                      evalAction(grant.Identifier)),
         p >> : p \in permissionsOf(grant.Privilege, grant.ResourceType) }

\* GRANT ... TO ...: the permissions are added to the role's row
execGrant(table, grant) == table \cup statementCells(grant)

\* REVOKE ... FROM ...: the permissions are removed; one not held is no error
execRevoke(table, grant) == table \ statementCells(grant)

\* The existence query that selects the row of (role, resource)
selectRow(systemKeyspace, role, resource) ==
    "SELECT permissions FROM " \o systemKeyspace \o ".role_permissions where resource='"
        \o resource \o "' and role='" \o role \o "' ALLOW FILTERING;"

\* iter.NumRows() of an existence query: the rows of role_permissions with
\* the resource and the role of the query's where clause
numRows(table, systemKeyspace, query) ==
    IF \E cell \in table : query = selectRow(systemKeyspace, cell[1], cell[2])
    THEN 1 ELSE 0

-----------------------------------------------------------------------------
(* Several grant resources on one database.  Each resource has its own     *)
(* configuration d and id; the handlers run one at a time, each from its   *)
(* first statement to its return, and the row count of an existence query  *)
(* is what the table holds when the query runs.                            *)

\* The number of grant resources
MaxGrants == 2

\* The (privilege, resource type) pairs of the compatibility table
LegalPairs ==
    { pair \in (DOMAIN privilegeToResourceTypesMap) \X validResources :
          pair[2] \in Range(privilegeToResourceTypesMap[pair[1]]) }

\* The configuration of a grant of a pair: the keyspace and the identifier
\* attribute its resource type needs, and no other optional attribute
LegalConfiguration(privilege, resourceType, grantee) ==
    [ privilege     |-> << privilege >>,
      grantee       |-> << grantee >>,
      resource_type |-> << resourceType >>,
      keyspace_name |-> IF resourceType \in { resourceKeyspace, resourceTable, resourceFunction,
                                              resourceAllFunctionsInKeyspace }
                        THEN << "ks1" >> ELSE << >>,
      function_name |-> IF resourceType = resourceFunction THEN << "f1" >> ELSE << >>,
      table_name    |-> IF resourceType = resourceTable THEN << "t1" >> ELSE << >>,
      role_name     |-> IF resourceType = resourceRole THEN << "r1" >> ELSE << >>,
      mbean_name    |-> IF resourceType = resourceMbean THEN << "m1" >> ELSE << >>,
      mbean_pattern |-> IF resourceType = resourceMbeans THEN << "m.*" >> ELSE << >> ]

\* Another privilege of the table for the resource type (the same privilege
\* when the resource type has one privilege only)
otherPrivilege(privilege, resourceType) ==
    LET others == { p \in Range(allPrivileges) \ { privilege } :
                        resourceType \in Range(privilegeToResourceTypesMap[p]) }
    IN  IF others = {} THEN privilege ELSE CHOOSE p \in others : TRUE

\* The resources declared next to a grant of (privilege, resourceType) to
\* alice: the second is another privilege on the same resource to alice, a
\* third the first grant to another grantee, then these two in turn
GrantConfigurations(privilege, resourceType) ==
    [ k \in 1..MaxGrants |->
        IF k = 1 THEN LegalConfiguration(privilege, resourceType, "alice")
        ELSE IF k % 2 = 0
        THEN LegalConfiguration(otherPrivilege(privilege, resourceType), resourceType, "alice")
        ELSE LegalConfiguration(privilege, resourceType, "bob") ]

\* The result of a handler of resource i, with what the cluster did in the
\* call.  fault: the cluster call that failed (0: none); applied: the
\* statement changed the table; checked: the existence query returned;
\* exists: it found a row
GrantResult(op, i, r, fault, applied, checked, exists) ==
    [ op |-> op, instance |-> i, err |-> r.err, stmts |-> r.stmts,
      sessions |-> r.sessions, fault |-> fault, applied |-> applied,
      checked |-> checked, exists |-> exists ]

\* The cluster calls of a handler that can fail, by their position: any one
\* of them, or none; a statement the database does not parse fails at Exec
\* (the second call) once the session is there
clusterFaults(calls, d) ==
    IF parseData(d).err = "" /\ ~statementAccepted(parseData(d).grant[1].ResourceType)
    THEN {1, 2}
    ELSE 0..calls

\* The existence query of the grant of configuration d
existenceQuery(d) ==
    IF parseData(d).err = "" THEN readGrantQuery(parseData(d).grant[1],
                                                  providerConfig.SystemKeyspaceName)
    ELSE ""

GrantInit ==
    /\ \E pair \in LegalPairs :
         grants = [ k \in 1..MaxGrants |->
                      [ d |-> GrantConfigurations(pair[1], pair[2])[k], id |-> "" ] ]
    /\ \A k \in 1..MaxGrants : schemaDiagnostics(grants[k].d, TRUE) = {}
    /\ role_permissions = {}
    /\ providerConfig = [ SystemKeyspaceName |-> "system_auth" ]
    /\ resourceData = << >>
    /\ keyspaceNameMatches = TRUE
    /\ phase = "validated"
    /\ diags = {}
    /\ id = ""
    /\ out = GrantResult("none", 0, NoResult, 0, FALSE, FALSE, FALSE)
    /\ issued = {}
    /\ rolesTable = {}
    /\ reconcile = << >>
    /\ TableIdle
    /\ roleResource = NoRole

\* The state of the single resource and its history of statements are not
\* part of this specification
singleVars == <<resourceData, keyspaceNameMatches, providerConfig, phase, diags, id, issued, roleVars, reconcile, tableVars>>

\* resourceGrantCreate on resource i: the GRANT changes the table before
\* the read that follows it queries the table
GrantCreate(i) ==
    /\ grants[i].id = ""
    /\ \E fault \in clusterFaults(4, grants[i].d) :
        \E parsed \in { parseData(grants[i].d) } :
        \E after \in { IF parsed.err = "" /\ fault \notin {1, 2}
                       THEN execGrant(role_permissions, parsed.grant[1])
                       ELSE role_permissions } :
        \E rowCount \in { numRows(after, providerConfig.SystemKeyspaceName,
                                   existenceQuery(grants[i].d)) } :
        \E r \in { grantCreate(grants[i].d, grants[i].id, providerConfig, fault # 1,
                                fault # 2, fault # 3, rowCount, fault # 4) } :
            /\ role_permissions' = after
            /\ grants' = [ grants EXCEPT ![i] = [ d |-> r.d, id |-> r.id ] ]
            /\ out' = GrantResult("create", i, r, fault, after # role_permissions,
                                  Len(r.stmts) = 2 /\ fault # 4,
                                  Len(r.stmts) = 2 /\ fault # 4 /\ rowCount > 0)
    /\ UNCHANGED singleVars

\* resourceGrantRead on resource i
GrantRead(i) ==
    /\ grants[i].id # ""
    /\ \E fault \in 0..2 :
        \E rowCount \in { numRows(role_permissions, providerConfig.SystemKeyspaceName,
                                   existenceQuery(grants[i].d)) } :
        \E r \in { grantRead(grants[i].d, providerConfig, fault # 1, rowCount, fault # 2) } :
            /\ grants' = [ grants EXCEPT ![i].d = r.d ]
            /\ out' = GrantResult("read", i, r, fault, FALSE,
                                  Len(r.stmts) = 1 /\ fault # 2,
                                  Len(r.stmts) = 1 /\ fault # 2 /\ rowCount > 0)
    /\ UNCHANGED <<singleVars, role_permissions>>

\* resourceGrantExists on the configuration of resource i: it takes d and
\* meta only, whether or not the resource has an id
GrantExists(i) ==
    /\ \E fault \in 0..2 :
        \E rowCount \in { numRows(role_permissions, providerConfig.SystemKeyspaceName,
                                   existenceQuery(grants[i].d)) } :
        \E r \in { resourceGrantExists(grants[i].d, providerConfig, fault # 1, rowCount,
                                        fault # 2) } :
            out' = GrantResult("exists", i, r, fault, FALSE, r.err = "", r.exists)
    /\ UNCHANGED <<singleVars, role_permissions, grants>>

\* resourceGrantDelete on resource i; after a Delete without error the
\* resource leaves the state
GrantDelete(i) ==
    /\ grants[i].id # ""
    /\ \E fault \in clusterFaults(2, grants[i].d) :
        \E parsed \in { parseData(grants[i].d) } :
        \E after \in { IF parsed.err = "" /\ fault = 0
                       THEN execRevoke(role_permissions, parsed.grant[1])
                       ELSE role_permissions } :
        \E r \in { grantDelete(grants[i].d, providerConfig, fault # 1, fault # 2) } :
            /\ role_permissions' = after
            /\ grants' = [ grants EXCEPT ![i].id = IF r.err = "" THEN "" ELSE @ ]
            /\ out' = GrantResult("delete", i, r, fault, after # role_permissions,
                                  FALSE, FALSE)
    /\ UNCHANGED singleVars

\* resourceGrantUpdate on resource i.  function_name is the one attribute
\* without ForceNew: the handler is called with d holding its new value
GrantUpdate(i) ==
    /\ grants[i].id # ""
    /\ \E name \in { "f1", "f2" } :
         out' = GrantResult("update", i,
                            grantUpdate(SetAttr(grants[i].d, identifierFunctionName, name),
                                        providerConfig),
                            0, FALSE, FALSE, FALSE)
    /\ UNCHANGED <<singleVars, role_permissions, grants>>

\* Another client of the database revokes what resource i grants
ExternalRevoke(i) ==
    /\ parseData(grants[i].d).err = ""
    /\ statementCells(parseData(grants[i].d).grant[1]) \cap role_permissions # {}
    /\ role_permissions' = execRevoke(role_permissions, parseData(grants[i].d).grant[1])
    /\ out' = GrantResult("external", i, NoResult, 0, TRUE, FALSE, FALSE)
    /\ UNCHANGED <<singleVars, grants>>

GrantNext ==
    \E i \in 1..MaxGrants :
        \/ GrantCreate(i)
        \/ GrantRead(i)
        \/ GrantExists(i)
        \/ GrantDelete(i)
        \/ GrantUpdate(i)
        \/ ExternalRevoke(i)

GrantSpec == GrantInit /\ [][GrantNext]_vars

-----------------------------------------------------------------------------
(* Properties of the grant handlers on the database                        *)

\* The Grant of resource i
grantOf(i) == parseData(grants[i].d).grant[1]

\* The table holds the privilege of resource i for its grantee on its resource
Held(i) == statementCells(grantOf(i)) \subseteq role_permissions

\* C11: for every valid Grant, a GRANT that succeeded followed at once by
\* the existence check (the read at the end of resourceGrantCreate, with no
\* other change of the table in between) finds the grant.
C11_GrantThenExists ==
    (out.op = "create" /\ out.checked) => out.exists

\* The round trip of C11 on the resources the existence query is written
\* for, a keyspace and a table
C11_KeyspaceOrTable ==
    ( /\ out.op = "create" /\ out.checked
      /\ grantOf(out.instance).ResourceType \in { resourceKeyspace, resourceTable } ) =>
        out.exists

\* C12: after any sequence of creations and deletions, a deleteGrant that
\* succeeded followed at once by grantExists of the same grant returns
\* false, also when other grants of the same grantee were created before.
C12_DeleteThenAbsent ==
    [][ ( /\ out.op = "delete" /\ out.err = ""
          /\ out'.op = "exists" /\ out'.instance = out.instance
          /\ out'.checked ) => ~out'.exists ]_vars

\* The round trip of C12 when no other resource in the state grants a
\* privilege on the same resource to the same grantee
C12_AloneThenAbsent ==
    [][ ( /\ out.op = "delete" /\ out.err = ""
          /\ out'.op = "exists" /\ out'.instance = out.instance
          /\ out'.checked
          /\ \A k \in 1..MaxGrants :
               existenceQuery(grants[k].d) = existenceQuery(grants[out.instance].d)
                   => grants[k].id = "" ) => ~out'.exists ]_vars

\* None of the permissions of resource i is in the table
NotHeld(i) == statementCells(grantOf(i)) \cap role_permissions = {}

\* C13: deleteGrant returns success exactly when parseData, CreateSession
\* and the Exec of the REVOKE succeed, so its only errors are those of the
\* three; it issues the REVOKE and no existence query; and the delete of a
\* grant that is not held leaves the table as it is.
C13_DeleteIdempotent ==
    [][ out'.op = "delete" =>
          /\ out'.err = "" <=> out'.fault = 0
          /\ out'.fault = 0 =>
                out'.stmts = << StatementText("REVOKE", "FROM", grantOf(out'.instance)) >>
          /\ out'.fault = 1 => out'.err = sessionCreationError /\ out'.stmts = << >>
          /\ out'.fault = 2 => out'.err = queryError
          /\ \A k \in 1..Len(out'.stmts) : HasPrefix(out'.stmts[k], "REVOKE ")
          /\ NotHeld(out'.instance) => role_permissions' = role_permissions ]_vars

\* The delete of a grant that another client had revoked succeeded
C13_Witness ==
    /\ out.op = "delete"
    /\ out.err = ""
    /\ ~out.applied
    /\ Len(out.stmts) = 1

\* C14: createGrant returns success only if the GRANT executed without
\* error and the existence check after it found the grant; when the GRANT
\* fails it returns that error and issues no existence check; when the GRANT
\* succeeded and the check reports absence it returns an error.
C14_CreateVerified ==
    out.op = "create" =>
        /\ out.err = "" =>
              /\ out.fault = 0
              /\ out.checked /\ out.exists
              /\ out.stmts = << StatementText("GRANT", "TO", grantOf(out.instance)),
                                existenceQuery(grants[out.instance].d) >>
        /\ out.fault = 2 =>
              /\ out.err = queryError
              /\ out.stmts = << StatementText("GRANT", "TO", grantOf(out.instance)) >>
              /\ ~out.checked
              /\ ~out.applied
        /\ (out.checked /\ ~out.exists) => out.err = "Grant does not exist"

\* A GRANT that executed and changed the table, after which the existence
\* check found no row
C14_Witness ==
    /\ out.op = "create"
    /\ out.fault = 0
    /\ out.applied
    /\ out.checked /\ ~out.exists
    /\ out.err = "Grant does not exist"

-----------------------------------------------------------------------------
(* The role resource: credential verification (checkPassword), readRole    *)
(* and the handlers resourceRoleCreateOrUpdate / Read / Delete.            *)

\* The characters of the model's names, passwords and hashes; the byte of a
\* character is its place in the list
Alphabet == "abcdefghijklmnopqrstuvwxyz0123456789$.'ABCDEF"

byteOf == [ c \in { Char(Alphabet, i) : i \in 1..Len(Alphabet) } |->
              CHOOSE i \in 1..Len(Alphabet) : Char(Alphabet, i) = c ]

\* []byte(s)
RECURSIVE bytes(_)
bytes(s) ==
    IF s = "" THEN << >>
    ELSE IF Len(s) = 1 THEN << byteOf[s] >>
    ELSE LET half == Len(s) \div 2
         IN  bytes(SubSeq(s, 1, half)) \o bytes(SubSeq(s, half + 1, Len(s)))

\* sha512.Sum512(b): the digest, kept free of collisions (the bytes of the
\* message stand for their digest)
Sum512(b) == b

hextable == "0123456789abcdef"

\* hex.EncodeToString(b): two lowercase digits a byte
RECURSIVE EncodeToString(_)
EncodeToString(b) ==
    IF Len(b) = 0 THEN ""
    ELSE IF Len(b) = 1
    THEN Char(hextable, (b[1] \div 16) + 1) \o Char(hextable, (b[1] % 16) + 1)
    ELSE LET half == Len(b) \div 2
         IN  EncodeToString(SubSeq(b, 1, half)) \o EncodeToString(SubSeq(b, half + 1, Len(b)))

\* The bytes of a password that bcrypt's key schedule reads
bcryptKeyLen == 72

\* Prefix of a bcrypt hash: version and cost; the salt follows
bcryptPrefix == "$2a$10$"

bcryptSaltLen == 2

\* The bcrypt hash of a password under a salt: prefix, salt, and the image
\* of the first bcryptKeyLen bytes of the password
bcryptHash(salt, password) ==
    bcryptPrefix \o salt \o "." \o SubSeq(password, 1, Min(Len(password), bcryptKeyLen))

ErrMismatchedHashAndPassword ==
    "crypto/bcrypt: hashedPassword is not the hash of the given password"

ErrHashTooShort == "crypto/bcrypt: hashedSecret too short to be a bcrypted password"

\* Mutant: a well-formed hash matches every password
CompareHashAndPassword_anyPassword(hashedPassword, password) ==
    IF ~( /\ Len(hashedPassword) > Len(bcryptPrefix) + bcryptSaltLen
          /\ SubSeq(hashedPassword, 1, Len(bcryptPrefix)) = bcryptPrefix )
    THEN ErrHashTooShort
    ELSE ""

\* bcrypt.CompareHashAndPassword(hashedPassword, password): the hash is
\* decoded, the password hashed under the salt of the hash, and the two
\* compared
CompareHashAndPassword(hashedPassword, password) ==
    IF ~( /\ Len(hashedPassword) > Len(bcryptPrefix) + bcryptSaltLen
          /\ SubSeq(hashedPassword, 1, Len(bcryptPrefix)) = bcryptPrefix )
    THEN ErrHashTooShort
    ELSE LET salt == SubSeq(hashedPassword, Len(bcryptPrefix) + 1,
                            Len(bcryptPrefix) + bcryptSaltLen)
         IN  IF bcryptHash(salt, password) = hashedPassword
             THEN ""
             ELSE ErrMismatchedHashAndPassword

\* Mutant: the sha-512 branch compares without regard to case
checkPassword_foldCase(algorithm, storedHash, password) ==
    LET upper == [ c \in { "a", "b", "c", "d", "e", "f" } |->
                     CASE c = "a" -> "A" [] c = "b" -> "B" [] c = "c" -> "C"
                       [] c = "d" -> "D" [] c = "e" -> "E" [] c = "f" -> "F" ]
        fold(s) == [ i \in 1..Len(s) |->
                       IF Char(s, i) \in DOMAIN upper THEN upper[Char(s, i)] ELSE Char(s, i) ]
    IN  IF algorithm = "sha-512"
        THEN IF fold(EncodeToString(Sum512(bytes(password)))) # fold(storedHash)
             THEN "password hash mismatch"
             ELSE ""
        ELSE CompareHashAndPassword(storedHash, password)

\* checkPassword(algorithm, storedHash, password): the error, "" for nil
checkPassword(algorithm, storedHash, password) ==
    IF algorithm = "sha-512"
    THEN LET hashBytes    == Sum512(bytes(password))
             computedHash == EncodeToString(hashBytes)
         IN  IF computedHash # storedHash
             THEN "password hash mismatch"
             ELSE ""
    ELSE CompareHashAndPassword(storedHash, password)

\* boolToAction[createRole]: the verb of the statement
boolToAction == (TRUE :> "CREATE") @@ (FALSE :> "ALTER")

\* fmt.Sprintf("%v", b) of a bool
formatBool(b) == IF b THEN "true" ELSE "false"

\* The statement of resourceRoleCreateOrUpdate
roleStatement(createRole, name, password, login, superUser) ==
    boolToAction[createRole] \o " ROLE '" \o name \o "' WITH PASSWORD = '" \o password
        \o "' AND LOGIN = " \o formatBool(login)
        \o " AND SUPERUSER = " \o formatBool(superUser)

\* The query of readRole; the role name is bound to its placeholder
readRoleQuery(systemKeyspace) ==
    "select role, can_login, is_superuser, salted_hash from " \o systemKeyspace
        \o ".roles where role = ?"

\* Mutant: a query without a row yields the zero values and no error
readRole_noError(rows, name) ==
    IF Len(rows) > 0
    THEN [ role |-> rows[1].role, canLogin |-> rows[1].can_login,
           isSuperUser |-> rows[1].is_superuser, saltedHash |-> rows[1].salted_hash,
           err |-> "" ]
    ELSE [ role |-> "", canLogin |-> FALSE, isSuperUser |-> FALSE, saltedHash |-> "",
           err |-> "" ]

\* readRole(session, name, systemKeyspace) on the rows the iterator scans:
\* the first row, or the error when Scan returns false
readRole(rows, name) ==
    IF Len(rows) > 0
    THEN [ role |-> rows[1].role, canLogin |-> rows[1].can_login,
           isSuperUser |-> rows[1].is_superuser, saltedHash |-> rows[1].salted_hash,
           err |-> "" ]
    ELSE [ role |-> "", canLogin |-> FALSE, isSuperUser |-> FALSE, saltedHash |-> "",
           err |-> "cannot read role with name " \o name ]

\* What a handler that did not verify a password reports of the verifier
NotVerified == [ found |-> FALSE, saltedHash |-> "", password |-> "", checkErr |-> "" ]

\* Mutant: the read keeps the password of the state whatever the verifier says
roleRead_keepsPassword(d, roleId, meta, sessionOk, rows) ==
    LET r == readRole(rows, roleId)
    IN  IF ~sessionOk
        THEN [ d |-> d, id |-> roleId, err |-> sessionCreationError, stmts |-> << >>,
               sessions |-> 1, verified |-> NotVerified ]
        ELSE IF r.err # ""
        THEN [ d |-> d, id |-> roleId, err |-> r.err,
               stmts |-> << readRoleQuery(meta.SystemKeyspaceName) >>, sessions |-> 1,
               verified |-> NotVerified ]
        ELSE [ d |-> [ name |-> r.role, super_user |-> r.isSuperUser,
                       login |-> r.canLogin, password |-> d.password ],
               id |-> r.role, err |-> "",
               stmts |-> << readRoleQuery(meta.SystemKeyspaceName) >>, sessions |-> 1,
               verified |-> [ found |-> TRUE, saltedHash |-> r.saltedHash,
                              password |-> d.password,
                              checkErr |-> checkPassword(meta.PwEncryptionAlgorithm,
                                                         r.saltedHash, d.password) ] ]

\* Mutant: a password of the state that is the stored hash itself is cleared
roleRead_clearsHash(d, roleId, meta, sessionOk, rows) ==
    LET name     == roleId
        password == d.password
        r        == readRole(rows, name)
        err      == checkPassword(meta.PwEncryptionAlgorithm, r.saltedHash, password)
    IN  IF ~sessionOk
        THEN [ d |-> d, id |-> roleId, err |-> sessionCreationError, stmts |-> << >>,
               sessions |-> 1, verified |-> NotVerified ]
        ELSE IF r.err # ""
        THEN [ d |-> d, id |-> roleId, err |-> r.err,
               stmts |-> << readRoleQuery(meta.SystemKeyspaceName) >>, sessions |-> 1,
               verified |-> NotVerified ]
        ELSE [ d |-> [ name |-> r.role, super_user |-> r.isSuperUser,
                       login |-> r.canLogin,
                       password |-> IF err = "" THEN password
                                    ELSE IF password = r.saltedHash THEN ""
                                    ELSE r.saltedHash ],
               id |-> r.role, err |-> "",
               stmts |-> << readRoleQuery(meta.SystemKeyspaceName) >>, sessions |-> 1,
               verified |-> [ found |-> TRUE, saltedHash |-> r.saltedHash,
                              password |-> password, checkErr |-> err ] ]

\* resourceRoleRead(ctx, d, meta); roleId is d.Id()
roleRead(d, roleId, meta, sessionOk, rows) ==
    LET name     == roleId
        password == d.password
        r        == readRole(rows, name)
        err      == checkPassword(meta.PwEncryptionAlgorithm, r.saltedHash, password)
    IN  IF ~sessionOk
        THEN [ d |-> d, id |-> roleId, err |-> sessionCreationError, stmts |-> << >>,
               sessions |-> 1, verified |-> NotVerified ]
        ELSE IF r.err # ""
        THEN [ d |-> d, id |-> roleId, err |-> r.err,
               stmts |-> << readRoleQuery(meta.SystemKeyspaceName) >>, sessions |-> 1,
               verified |-> NotVerified ]
        ELSE [ d |-> [ name |-> r.role, super_user |-> r.isSuperUser,
                       login |-> r.canLogin,
                       password |-> IF err = "" THEN password ELSE r.saltedHash ],
               id |-> r.role, err |-> "",
               stmts |-> << readRoleQuery(meta.SystemKeyspaceName) >>, sessions |-> 1,
               verified |-> [ found |-> TRUE, saltedHash |-> r.saltedHash,
                              password |-> password, checkErr |-> err ] ]

\* Mutant: the statement of an update has the verb of a create
roleCreateOrUpdate_alwaysCreate(d, roleId, meta, createRole, sessionOk, execOk, readSessionOk, rows) ==
    LET statement == roleStatement(TRUE, d.name, d.password, d.login, d.super_user)
        read      == roleRead(d, d.name, meta, readSessionOk, rows)
    IN  IF ~sessionOk
        THEN [ d |-> d, id |-> roleId, err |-> sessionCreationError, stmts |-> << >>,
               sessions |-> 1, verified |-> NotVerified ]
        ELSE IF ~execOk
        THEN [ d |-> d, id |-> roleId, err |-> queryError, stmts |-> << statement >>,
               sessions |-> 1, verified |-> NotVerified ]
        ELSE [ d |-> read.d, id |-> read.id, err |-> read.err,
               stmts |-> << statement >> \o read.stmts, sessions |-> 1 + read.sessions,
               verified |-> read.verified ]

\* resourceRoleCreateOrUpdate(ctx, d, meta, createRole)
roleCreateOrUpdate(d, roleId, meta, createRole, sessionOk, execOk, readSessionOk, rows) ==
    LET name      == d.name
        superUser == d.super_user
        login     == d.login
        password  == d.password
        statement == roleStatement(createRole, name, password, login, superUser)
        set       == [ name |-> name, super_user |-> superUser, login |-> login,
                       password |-> password ]
        read      == roleRead(set, name, meta, readSessionOk, rows)
    IN  IF ~sessionOk
        THEN [ d |-> d, id |-> roleId, err |-> sessionCreationError, stmts |-> << >>,
               sessions |-> 1, verified |-> NotVerified ]
        ELSE IF ~execOk
        THEN [ d |-> d, id |-> roleId, err |-> queryError, stmts |-> << statement >>,
               sessions |-> 1, verified |-> NotVerified ]
        ELSE [ d |-> read.d, id |-> read.id, err |-> read.err,
               stmts |-> << statement >> \o read.stmts, sessions |-> 1 + read.sessions,
               verified |-> read.verified ]

\* Mutant: a statement the database fails is taken for a success
roleDelete_ifExists(d, meta, sessionOk, execOk) ==
    LET statement == "DROP ROLE '" \o d.name \o "'"
    IN  IF ~sessionOk
        THEN [ err |-> sessionCreationError, stmts |-> << >>, sessions |-> 1 ]
        ELSE [ err |-> "", stmts |-> << statement >>, sessions |-> 1 ]

\* resourceRoleDelete(ctx, d, meta)
roleDelete(d, meta, sessionOk, execOk) ==
    LET statement == "DROP ROLE '" \o d.name \o "'"
    IN  IF ~sessionOk
        THEN [ err |-> sessionCreationError, stmts |-> << >>, sessions |-> 1 ]
        ELSE IF ~execOk
        THEN [ err |-> queryError, stmts |-> << statement >>, sessions |-> 1 ]
        ELSE [ err |-> "", stmts |-> << statement >>, sessions |-> 1 ]

-----------------------------------------------------------------------------
(* The database's table <system keyspace>.roles, one row a role: role,     *)
(* can_login, is_superuser, salted_hash.  The database derives salted_hash *)
(* from the password of a CREATE ROLE or ALTER ROLE under the algorithm    *)
(* the deployment is configured with.                                      *)
(***************************************************************************)

\* The salted_hash the database stores for a password: a bcrypt hash under
\* a salt of its choosing, or the lowercase hexadecimal SHA-512 digest
saltedHashOf(algorithm, salt, password) ==
    IF algorithm = "sha-512"
    THEN EncodeToString(Sum512(bytes(password)))
    ELSE bcryptHash(salt, password)

\* Whether the database executes the statement: its quoted literals end
\* where they should, a created role is new, an altered role exists
roleStatementAccepted(table, createRole, name, password) ==
    /\ ~HasSubstring(name, "'")
    /\ ~HasSubstring(password, "'")
    /\ createRole <=> (\A row \in table : row.role # name)

\* The table after CREATE ROLE or ALTER ROLE of the name.  A row records,
\* beside its columns, the password its salted_hash was derived from ("" for
\* a hash written as such); no query reads it
execRoleStatement(table, name, login, superUser, password, saltedHash) ==
    { row \in table : row.role # name }
        \cup { [ role |-> name, can_login |-> login, is_superuser |-> superUser,
                 salted_hash |-> saltedHash, password |-> password ] }

\* The table after DROP ROLE of the name
execDropRole(table, name) == { row \in table : row.role # name }

\* The rows the query of readRole iterates over
roleRows(table, name) ==
    IF \E row \in table : row.role = name
    THEN << CHOOSE row \in table : row.role = name >>
    ELSE << >>

-----------------------------------------------------------------------------
(* The role resource against the database: the handlers Terraform calls,   *)
(* and other clients of the database changing the role.                    *)
(***************************************************************************)

minNameLen     == 1
maxNameLen     == 256
minPasswordLen == 40
maxPasswordLen == 512

\* ValidateFunc of name and password
roleSchemaValid(d) ==
    /\ Len(d.name) >= minNameLen /\ Len(d.name) <= maxNameLen
    /\ Len(d.password) >= minPasswordLen /\ Len(d.password) <= maxPasswordLen

\* Passwords of a configuration: a short one, one of the least length, and
\* two that differ only after the bytes bcrypt reads
RolePasswords ==
    { "secret", Repeat("z", minPasswordLen),
      Repeat("a", bcryptKeyLen) \o "x", Repeat("a", bcryptKeyLen) \o "y" }

RoleNames == { "", "r1", "o'r" }

Salts == { "s1", "s2" }

\* The digest of the password of least length as another client writes it:
\* in upper case
upperCaseDigest == Repeat("1A", minPasswordLen)

RoleResult(op, r, fault) ==
    [ op |-> op, err |-> r.err, stmts |-> r.stmts, sessions |-> r.sessions,
      fault |-> fault, verified |-> r.verified ]

NoRoleResult == [ err |-> "", stmts |-> << >>, sessions |-> 0, verified |-> NotVerified ]

RoleInit ==
    /\ \E config \in [ name : RoleNames, super_user : BOOLEAN, login : BOOLEAN,
                       password : RolePasswords ] :
        /\ roleSchemaValid(config)
        /\ config.login # config.super_user
        /\ roleResource = [ config |-> config, d |-> config, id |-> "" ]
    /\ rolesTable = {}
    /\ reconcile = << >>
    /\ TableIdle
    /\ providerConfig \in [ SystemKeyspaceName : { "system_auth" },
                            PwEncryptionAlgorithm : { "bcrypt", "sha-512" } ]
    /\ out = RoleResult("none", NoRoleResult, 0)
    /\ resourceData = << >>
    /\ keyspaceNameMatches = TRUE
    /\ phase = "validated"
    /\ diags = {}
    /\ id = ""
    /\ issued = {}
    /\ role_permissions = {}
    /\ grants = << >>

\* The grant resources are not part of this specification
nonRoleVars == <<resourceData, keyspaceNameMatches, providerConfig, phase, diags, id, issued, catalogVars, reconcile, tableVars>>

\* Faults of a handler of so many calls to the cluster: 0 for none, 1 the
\* first CreateSession, 2 the statement, 3 the CreateSession of the read,
\* 4 the query of the read; a statement the database rejects fails
roleFaults(accepted) == IF accepted THEN 0..4 ELSE {1, 2}

\* resourceRoleCreateOrUpdate on the planned attributes
RoleApply(createRole, planned) ==
    \E fault \in roleFaults(roleStatementAccepted(rolesTable, createRole,
                                                  planned.name, planned.password)) :
    \E salt \in Salts :
    \E after \in { IF fault \in {1, 2} THEN rolesTable
                   ELSE execRoleStatement(rolesTable, planned.name, planned.login,
                            planned.super_user, planned.password,
                            saltedHashOf(providerConfig.PwEncryptionAlgorithm, salt,
                                         planned.password)) } :
    \E rows \in { IF fault = 4 THEN << >> ELSE roleRows(after, planned.name) } :
    \E r \in { roleCreateOrUpdate(planned, roleResource.id, providerConfig, createRole,
                                  fault # 1, fault # 2, fault # 3, rows) } :
        /\ rolesTable' = after
        /\ roleResource' = [ config |-> planned, d |-> r.d, id |-> r.id ]
        /\ out' = RoleResult(IF createRole THEN "create" ELSE "update", r, fault)

\* resourceRoleCreate: the resource is not in the state
RoleCreate ==
    /\ roleResource.id = ""
    /\ RoleApply(TRUE, roleResource.config)
    /\ UNCHANGED nonRoleVars

\* resourceRoleUpdate: the configuration, with the password it has now,
\* differs from the state
RoleUpdate ==
    /\ roleResource.id # ""
    /\ \E password \in { p \in RolePasswords : Len(p) >= minPasswordLen } :
        \E planned \in { [ roleResource.config EXCEPT !.password = password ] } :
            /\ planned # roleResource.d
            /\ RoleApply(FALSE, planned)
    /\ UNCHANGED nonRoleVars

\* resourceRoleRead: the refresh of a resource of the state
RoleRead ==
    /\ roleResource.id # ""
    /\ \E fault \in 0..2 :
        \E rows \in { IF fault = 2 THEN << >> ELSE roleRows(rolesTable, roleResource.id) } :
        \E r \in { roleRead(roleResource.d, roleResource.id, providerConfig, fault # 1, rows) } :
            /\ roleResource' = [ roleResource EXCEPT !.d = r.d, !.id = r.id ]
            /\ out' = RoleResult("read", r, fault)
    /\ UNCHANGED rolesTable
    /\ UNCHANGED nonRoleVars

\* resourceRoleDelete: on success the resource leaves the state
RoleDelete ==
    /\ roleResource.id # ""
    /\ \E fault \in (IF \E row \in rolesTable : row.role = roleResource.d.name
                     THEN 0..2 ELSE {1, 2}) :
        \E r \in { roleDelete(roleResource.d, providerConfig, fault # 1, fault # 2) } :
            /\ rolesTable' = IF r.err = "" THEN execDropRole(rolesTable, roleResource.d.name)
                             ELSE rolesTable
            /\ roleResource' = IF r.err = ""
                               THEN [ roleResource EXCEPT !.d = roleResource.config, !.id = "" ]
                               ELSE roleResource
            /\ out' = RoleResult("delete", r @@ [ verified |-> NotVerified ], fault)
    /\ UNCHANGED nonRoleVars

\* Another client of the database changes the password of the role, or
\* writes the digest of one in upper case
ExternalAlter ==
    /\ \E row \in rolesTable :
        \E change \in { << p, saltedHashOf(providerConfig.PwEncryptionAlgorithm, salt, p) >> :
                          salt \in Salts,
                          p \in { q \in RolePasswords : Len(q) >= minPasswordLen } }
                      \cup { << "", upperCaseDigest >> } :
            /\ change[2] # row.salted_hash
            /\ rolesTable' = execRoleStatement(rolesTable, row.role, row.can_login,
                                               row.is_superuser, change[1], change[2])
    /\ out' = RoleResult("external", NoRoleResult, 0)
    /\ UNCHANGED roleResource
    /\ UNCHANGED nonRoleVars

\* Another client of the database drops the role
ExternalDrop ==
    /\ \E row \in rolesTable : rolesTable' = execDropRole(rolesTable, row.role)
    /\ out' = RoleResult("external", NoRoleResult, 0)
    /\ UNCHANGED roleResource
    /\ UNCHANGED nonRoleVars

RoleNext ==
    \/ RoleCreate
    \/ RoleUpdate
    \/ RoleRead
    \/ RoleDelete
    \/ ExternalAlter
    \/ ExternalDrop

RoleSpec == RoleInit /\ [][RoleNext]_vars

-----------------------------------------------------------------------------
(* Claims about the role resource                                          *)
(***************************************************************************)

\* The plaintexts a configuration can supply
LegalPasswords == { p \in RolePasswords : Len(p) >= minPasswordLen }

\* The last handler read the row of the role and verified a password
Verified == out.verified.found

\* C16: under sha-512 the verifier reports a match exactly when the
\* lowercase hexadecimal SHA-512 digest of the supplied plaintext equals the
\* stored hash: when the stored hash is the digest of a plaintext p, p
\* matches and every other supplied string does not.
C16_Sha512MatchIffDigest ==
    (Verified /\ providerConfig.PwEncryptionAlgorithm = "sha-512") =>
        /\ (out.verified.checkErr = "") <=>
             (out.verified.saltedHash = EncodeToString(Sum512(bytes(out.verified.password))))
        /\ \A p \in LegalPasswords :
             out.verified.saltedHash = EncodeToString(Sum512(bytes(p))) =>
                ((out.verified.checkErr = "") <=> (out.verified.password = p))
        /\ out.verified.saltedHash = upperCaseDigest => out.verified.checkErr # ""

\* A read under sha-512 found the digest of the supplied plaintext stored
C16_Witness ==
    /\ out.op = "read"
    /\ Verified
    /\ providerConfig.PwEncryptionAlgorithm = "sha-512"
    /\ out.verified.password \in LegalPasswords
    /\ out.verified.checkErr = ""

\* A read under sha-512 found another plaintext's digest stored
C16_MismatchReached ==
    /\ out.op = "read"
    /\ Verified
    /\ providerConfig.PwEncryptionAlgorithm = "sha-512"
    /\ out.verified.password \in LegalPasswords
    /\ \E p \in LegalPasswords : out.verified.saltedHash = EncodeToString(Sum512(bytes(p)))
    /\ out.verified.checkErr = "password hash mismatch"

\* The salted_hash of the catalog's row of the role of the state
catalogHash == { row.salted_hash : row \in { r \in rolesTable : r.role = roleResource.id } }

\* C17: after every successful role Read the stored password is either the
\* plaintext the caller supplied, which then verifies against the catalog's
\* stored hash under the configured algorithm, or the catalog's stored hash;
\* a plaintext that failed verification is never stored.
C17_ReadStoresPlaintextOrHash ==
    (out.op = "read" /\ out.err = "") =>
        /\ Verified
        /\ catalogHash = { out.verified.saltedHash }
        /\ \/ /\ roleResource.d.password = out.verified.password
              /\ checkPassword(providerConfig.PwEncryptionAlgorithm,
                               out.verified.saltedHash, roleResource.d.password) = ""
           \/ roleResource.d.password = out.verified.saltedHash
        /\ out.verified.checkErr # "" => roleResource.d.password = out.verified.saltedHash

\* A read whose supplied plaintext failed verification stored the hash
C17_Witness ==
    /\ out.op = "read"
    /\ out.err = ""
    /\ out.verified.password \in LegalPasswords
    /\ out.verified.checkErr # ""
    /\ roleResource.d.password = out.verified.saltedHash
    /\ roleResource.d.password # out.verified.password

\* C18: a role Read whose catalog query returns no row for the role name
\* fails with the error that the role cannot be read, and leaves the stored
\* id, name, login, super_user and password unchanged.
C18_ReadOfAbsentRole ==
    [][ ( /\ out'.op = "read"
          /\ Len(out'.stmts) = 1
          /\ \A row \in rolesTable : row.role # roleResource.id )
        => ( /\ out'.err = "cannot read role with name " \o roleResource.id
             /\ roleResource' = roleResource ) ]_vars

\* A read of a role that is in the state and not in the catalog has failed
C18_Witness ==
    /\ out.op = "read"
    /\ out.fault = 0
    /\ roleResource.id # ""
    /\ \A row \in rolesTable : row.role # roleResource.id
    /\ out.err = "cannot read role with name " \o roleResource.id
    /\ roleResource.d.password \in LegalPasswords

\* The role was created, or altered, with password p: the catalog stores
\* the hash the database derived from p
StoredFor(p) ==
    \E row \in rolesTable :
        /\ row.role = roleResource.id
        /\ row.password = p
        /\ row.salted_hash = out.verified.saltedHash

\* The bytes of a string that bcrypt reads
bcryptKey(s) == SubSeq(s, 1, Min(Len(s), bcryptKeyLen))

\* The supplied string differs from p: anywhere under sha-512, within the
\* bytes bcrypt reads under bcrypt
DiffersFor(algorithm, supplied, p) ==
    IF algorithm = "sha-512" THEN supplied # p ELSE bcryptKey(supplied) # bcryptKey(p)

C19_LongPasswordKept ==
    /\ out.op = "read"
    /\ out.err = ""
    /\ \E p \in LegalPasswords :
         /\ StoredFor(p)
         /\ out.verified.password # p
         /\ roleResource.d.password = out.verified.password

\* The statement the claim describes, for a verb and the caller's attributes
statementShape(verb, config) ==
    verb \o " ROLE '" \o config.name \o "' WITH PASSWORD = '" \o config.password
         \o "' AND LOGIN = " \o (IF config.login THEN "true" ELSE "false")
         \o " AND SUPERUSER = " \o (IF config.super_user THEN "true" ELSE "false")

\* C20: role create and role update issue the same statement shape,
\* <VERB> ROLE '<name>' WITH PASSWORD = '<password>' AND LOGIN = <bool> AND
\* SUPERUSER = <bool>, built from the caller's name, password, login and
\* super_user, with verb CREATE on create and ALTER on update and no other
\* difference.
C20_StatementShape ==
    /\ (out.op = "create" /\ Len(out.stmts) > 0) =>
          out.stmts[1] = statementShape("CREATE", roleResource.config)
    /\ (out.op = "update" /\ Len(out.stmts) > 0) =>
          out.stmts[1] = statementShape("ALTER", roleResource.config)

\* An update has issued its statement and the database has executed it
C20_Witness ==
    /\ out.op = "update"
    /\ out.fault = 0
    /\ Len(out.stmts) = 2
    /\ SubSeq(out.stmts[1], 1, 11) = "ALTER ROLE "
    /\ \E row \in rolesTable : row.password = roleResource.config.password

\* C21: role delete issues exactly one statement, DROP ROLE '<name>', and
\* returns the error of the database: the drop of a role the catalog does
\* not hold is returned as an error, never as a success, and the resource
\* stays in the state.
C21_DeleteDropsOnce ==
    [][ out'.op = "delete" =>
          /\ out'.sessions = 1
          /\ out'.fault # 1 => out'.stmts = << "DROP ROLE '" \o roleResource.d.name \o "'" >>
          /\ out'.fault = 1 => out'.stmts = << >>
          /\ out'.fault = 2 => out'.err = queryError
          /\ ( /\ out'.fault # 1
               /\ \A row \in rolesTable : row.role # roleResource.d.name )
             => ( /\ out'.err = queryError
                  /\ roleResource' = roleResource
                  /\ rolesTable' = rolesTable )
          /\ out'.err = "" => \A row \in rolesTable' : row.role # roleResource.d.name ]_vars

\* The delete of a role another client dropped has failed with the error of
\* the database
C21_Witness ==
    /\ out.op = "delete"
    /\ out.fault = 2
    /\ Len(out.stmts) = 1
    /\ roleResource.id # ""
    /\ \A row \in rolesTable : row.role # roleResource.d.name
    /\ out.err = queryError

-----------------------------------------------------------------------------
(* Claims about the messages and the order of the grant handlers           *)
(***************************************************************************)

\* The alternatives a detail of the privilege validator enumerates: what
\* follows "<privilege> not one of ", between its separators
listedIn(detail, privilege, p) ==
    LET list == SubSeq(detail, Len(privilege) + Len(" not one of ") + 1, Len(detail))
    IN  HasSubstring(", " \o list \o ", ", ", " \o p \o ", ")

\* C22: when the privilege validator rejects a privilege, the privileges
\* the error detail lists are exactly the privileges the validator accepts,
\* the keys of the compatibility table.
C22_RejectionListsLegal ==
    \A dg \in diags :
        dg.summary = "Invalid privilege" =>
            \A p \in Privileges :
                listedIn(dg.detail, Privilege, p) <=> (validatePrivilege(p) = {})

\* Every privilege the detail lists is one the validator accepts
C22_ListedAreLegal ==
    \A dg \in diags :
        dg.summary = "Invalid privilege" =>
            \A p \in Privileges :
                listedIn(dg.detail, Privilege, p) => (validatePrivilege(p) = {})

\* C23: grantExists(g) returns true only if the catalog holds g's own
\* privilege for g's grantee on g's resource; another privilege of the same
\* grantee on the same resource does not make it true.
C23_ExistsOnlyOwnPrivilege ==
    (out.op = "exists" /\ out.exists) => Held(out.instance)

\* grantExists returns true only if the grantee holds some permission on
\* the resource of the grant
C23_ExistsOnlySomePrivilege ==
    (out.op = "exists" /\ out.exists) =>
        \E held \in role_permissions :
            \E cell \in statementCells(grantOf(out.instance)) :
                held[1] = cell[1] /\ held[2] = cell[2]

-----------------------------------------------------------------------------
(* Two grants reconciled concurrently on one database.  resourceGrantCreate *)
(* is two calls to the cluster, the GRANT and the existence query of the   *)
(* read; the operations of the other grant may run between them.  Beside   *)
(* the table the two share, reconcile[i].alone is the table as the         *)
(* operations of grant i alone would have left it, and each result is      *)
(* recorded with the result the same call has on that table.               *)
(***************************************************************************)

ReconcileResult(op, i, err, exists, aloneErr, aloneExists) ==
    [ op |-> op, instance |-> i, err |-> err, exists |-> exists,
      aloneErr |-> aloneErr, aloneExists |-> aloneExists ]

\* Two grants that differ in the privilege or in the grantee
ReconcileInit ==
    /\ \E pair \in LegalPairs :
        \E other \in { LegalConfiguration(otherPrivilege(pair[1], pair[2]), pair[2], "alice"),
                       LegalConfiguration(pair[1], pair[2], "bob") } :
            /\ other # LegalConfiguration(pair[1], pair[2], "alice")
            /\ grants = << [ d |-> LegalConfiguration(pair[1], pair[2], "alice"), id |-> "" ],
                           [ d |-> other, id |-> "" ] >>
    /\ \A k \in 1..2 : schemaDiagnostics(grants[k].d, TRUE) = {}
    /\ role_permissions = {}
    /\ reconcile = [ k \in 1..2 |-> [ pc |-> "idle", alone |-> {} ] ]
    /\ providerConfig = [ SystemKeyspaceName |-> "system_auth" ]
    /\ out = ReconcileResult("none", 0, "", FALSE, "", FALSE)
    /\ resourceData = << >>
    /\ keyspaceNameMatches = TRUE
    /\ phase = "validated"
    /\ diags = {}
    /\ id = ""
    /\ issued = {}
    /\ rolesTable = {}
    /\ roleResource = NoRole
    /\ TableIdle

nonReconcileVars == <<resourceData, keyspaceNameMatches, providerConfig, phase, diags, id, issued, roleVars, tableVars>>

\* resourceGrantCreate of grant i up to the Exec of its GRANT: a statement
\* the database does not parse ends the handler with the error
ReconcileGrant(i) ==
    /\ reconcile[i].pc = "idle"
    /\ grants[i].id = ""
    /\ IF statementAccepted(grantOf(i).ResourceType)
       THEN /\ role_permissions' = execGrant(role_permissions, grantOf(i))
            /\ reconcile' = [ reconcile EXCEPT ![i] =
                                [ pc |-> "granted", alone |-> execGrant(@.alone, grantOf(i)) ] ]
            /\ UNCHANGED <<grants, out>>
       ELSE \E r \in { grantCreate(grants[i].d, grants[i].id, providerConfig,
                                    TRUE, FALSE, TRUE, 0, TRUE) } :
                /\ grants' = [ grants EXCEPT ![i] = [ d |-> r.d, id |-> r.id ] ]
                /\ out' = ReconcileResult("create", i, r.err, FALSE, r.err, FALSE)
                /\ UNCHANGED <<role_permissions, reconcile>>
    /\ UNCHANGED nonReconcileVars

\* resourceGrantCreate of grant i after its GRANT: SetId and the read
ReconcileVerify(i) ==
    /\ reconcile[i].pc = "granted"
    /\ \E r \in { grantCreate(grants[i].d, grants[i].id, providerConfig, TRUE, TRUE, TRUE,
                               numRows(role_permissions, providerConfig.SystemKeyspaceName,
                                       existenceQuery(grants[i].d)), TRUE) } :
        \E a \in { grantCreate(grants[i].d, grants[i].id, providerConfig, TRUE, TRUE, TRUE,
                               numRows(reconcile[i].alone, providerConfig.SystemKeyspaceName,
                                       existenceQuery(grants[i].d)), TRUE) } :
            /\ grants' = [ grants EXCEPT ![i] = [ d |-> r.d, id |-> r.id ] ]
            /\ out' = ReconcileResult("create", i, r.err, r.err = "", a.err, a.err = "")
    /\ reconcile' = [ reconcile EXCEPT ![i].pc = "idle" ]
    /\ UNCHANGED role_permissions
    /\ UNCHANGED nonReconcileVars

\* resourceGrantExists of grant i
ReconcileExists(i) ==
    /\ reconcile[i].pc = "idle"
    /\ \E r \in { resourceGrantExists(grants[i].d, providerConfig, TRUE,
                        numRows(role_permissions, providerConfig.SystemKeyspaceName,
                                existenceQuery(grants[i].d)), TRUE) } :
        \E a \in { resourceGrantExists(grants[i].d, providerConfig, TRUE,
                        numRows(reconcile[i].alone, providerConfig.SystemKeyspaceName,
                                existenceQuery(grants[i].d)), TRUE) } :
            out' = ReconcileResult("exists", i, r.err, r.exists, a.err, a.exists)
    /\ UNCHANGED <<role_permissions, grants, reconcile>>
    /\ UNCHANGED nonReconcileVars

\* resourceGrantDelete of grant i
ReconcileDelete(i) ==
    /\ reconcile[i].pc = "idle"
    /\ grants[i].id # ""
    /\ \E r \in { grantDelete(grants[i].d, providerConfig, TRUE, TRUE) } :
        /\ grants' = [ grants EXCEPT ![i].id = IF r.err = "" THEN "" ELSE @ ]
        /\ out' = ReconcileResult("delete", i, r.err, FALSE, r.err, FALSE)
    /\ role_permissions' = execRevoke(role_permissions, grantOf(i))
    /\ reconcile' = [ reconcile EXCEPT ![i].alone = execRevoke(@, grantOf(i)) ]
    /\ UNCHANGED nonReconcileVars

ReconcileNext ==
    \E i \in 1..2 :
        \/ ReconcileGrant(i)
        \/ ReconcileVerify(i)
        \/ ReconcileExists(i)
        \/ ReconcileDelete(i)

ReconcileSpec == ReconcileInit /\ [][ReconcileNext]_vars

\* C24: two Grants that differ in at least one field are reconciled
\* concurrently; under every interleaving of their create, exists and delete
\* operations the result of each operation on one Grant equals its result
\* had the operations of the other Grant not run.
C24_ResultsIndependent ==
    /\ out.err = out.aloneErr
    /\ out.exists = out.aloneExists

\* The independence of C24 for two Grants to different grantees
C24_OtherGranteeIndependent ==
    grantOf(1).Grantee # grantOf(2).Grantee =>
        /\ out.err = out.aloneErr
        /\ out.exists = out.aloneExists

-----------------------------------------------------------------------------
(* The grant handlers called on every configuration the schema accepts,    *)
(* those parseData rejects included, against the database.                 *)
(***************************************************************************)

HandlerInit ==
    /\ resourceData \in { d \in PairSweep : schemaDiagnostics(d, TRUE) = {} }
    /\ keyspaceNameMatches = TRUE
    /\ providerConfig = [ SystemKeyspaceName |-> "system_auth" ]
    /\ phase = "validated"
    /\ diags = {}
    /\ id = ""
    /\ out = NoResult
    /\ issued = {}
    /\ role_permissions = {}
    /\ grants = << >>
    /\ rolesTable = {}
    /\ roleResource = NoRole
    /\ reconcile = << >>
    /\ TableIdle

handlerUnchanged == <<keyspaceNameMatches, providerConfig, phase, diags, issued, grants, roleVars, reconcile, tableVars>>

\* resourceGrantCreate on the configuration
HandlerCreate ==
    /\ id = ""
    /\ \E fault \in clusterFaults(4, resourceData) :
        \E parsed \in { parseData(resourceData) } :
        \E after \in { IF parsed.err = "" /\ fault \notin {1, 2}
                       THEN execGrant(role_permissions, parsed.grant[1])
                       ELSE role_permissions } :
        \E r \in { grantCreate(resourceData, id, providerConfig, fault # 1, fault # 2,
                               fault # 3,
                               numRows(after, providerConfig.SystemKeyspaceName,
                                       existenceQuery(resourceData)),
                               fault # 4) } :
            /\ role_permissions' = after
            /\ resourceData' = r.d
            /\ id' = r.id
            /\ out' = Result("create", r)
    /\ UNCHANGED handlerUnchanged

\* resourceGrantExists on the attributes as they are
HandlerExists ==
    /\ \E fault \in 0..2 :
        \E r \in { resourceGrantExists(resourceData, providerConfig, fault # 1,
                        numRows(role_permissions, providerConfig.SystemKeyspaceName,
                                existenceQuery(resourceData)),
                        fault # 2) } :
            out' = Result("exists", r)
    /\ UNCHANGED <<resourceData, id, role_permissions>>
    /\ UNCHANGED handlerUnchanged

\* resourceGrantDelete on the attributes as they are
HandlerDelete ==
    /\ \E fault \in clusterFaults(2, resourceData) :
        \E parsed \in { parseData(resourceData) } :
        \E r \in { grantDelete(resourceData, providerConfig, fault # 1, fault # 2) } :
            /\ role_permissions' = IF parsed.err = "" /\ fault = 0
                                   THEN execRevoke(role_permissions, parsed.grant[1])
                                   ELSE role_permissions
            /\ id' = IF r.err = "" THEN "" ELSE id
            /\ out' = Result("delete", r)
    /\ UNCHANGED resourceData
    /\ UNCHANGED handlerUnchanged

HandlerNext ==
    \/ HandlerCreate
    \/ HandlerExists
    \/ HandlerDelete

HandlerSpec == HandlerInit /\ [][HandlerNext]_vars

\* C25: in createGrant, grantExists and deleteGrant a validation failure is
\* decided before any I/O: when parseData returns an error the operation
\* returns that error without creating a session or issuing a statement,
\* and the catalog is unchanged.
C25_ValidationBeforeIO ==
    [][ ( /\ out'.op \in { "create", "exists", "delete" }
          /\ parseData(resourceData).err # "" )
        => ( /\ out'.err = parseData(resourceData).err
             /\ out'.sessions = 0
             /\ out'.stmts = << >>
             /\ role_permissions' = role_permissions
             /\ id' = id
             /\ resourceData' = resourceData ) ]_vars

\* grantExists on attributes parseData rejects has returned its error
C25_Witness ==
    /\ out.op = "exists"
    /\ parseData(resourceData).err # ""
    /\ out.err = parseData(resourceData).err
    /\ out.sessions = 0

-----------------------------------------------------------------------------
(* A grant resource and a role resource of one configuration: the handlers *)
(* of both, each a whole call, against the database.                       *)
(***************************************************************************)

OperationsInit ==
    /\ \E d \in { LegalConfiguration(privilegeSelect, resourceKeyspace, "alice"),
                   LegalConfiguration(privilegeAll, resourceRole, "alice"),
                   LegalConfiguration(privilegeExecute, resourceFunction, "alice") } :
         grants = << [ d |-> d, id |-> "" ] >>
    /\ \E config \in [ name : { "r1", "o'r" }, super_user : { FALSE }, login : { TRUE },
                        password : { Repeat("z", minPasswordLen) } ] :
         roleResource = [ config |-> config, d |-> config, id |-> "" ]
    /\ providerConfig \in [ SystemKeyspaceName : { "system_auth" },
                            PwEncryptionAlgorithm : { "bcrypt", "sha-512" } ]
    /\ role_permissions = {}
    /\ rolesTable = {}
    /\ out = GrantResult("none", 0, NoResult, 0, FALSE, FALSE, FALSE)
    /\ resourceData = << >>
    /\ keyspaceNameMatches = TRUE
    /\ phase = "validated"
    /\ diags = {}
    /\ id = ""
    /\ issued = {}
    /\ reconcile = << >>
    /\ TableIdle

OperationsNext ==
    \/ GrantCreate(1)
    \/ GrantRead(1)
    \/ GrantDelete(1)
    \/ RoleCreate
    \/ RoleUpdate
    \/ RoleRead
    \/ RoleDelete

OperationsSpec == OperationsInit /\ [][OperationsNext]_vars

\* C26: no grant or role operation retries: each operation issues each of
\* its statements at most once and at most two statements in all, the write
\* and the read-back; a failure of the write statement ends the operation
\* with that error, without the read-back and without setting the id.
C26_NoRetry ==
    [][ out'.op \in { "create", "update", "read", "delete" } =>
          /\ Len(out'.stmts) <= 2
          /\ out'.sessions <= 2
          /\ Len(out'.stmts) = 2 => out'.stmts[1] # out'.stmts[2]
          /\ out'.op \in { "read", "delete" } => Len(out'.stmts) <= 1
          /\ (out'.op # "read" /\ out'.fault = 2) =>
                /\ out'.err = queryError
                /\ Len(out'.stmts) = 1
                /\ out'.sessions = 1
                /\ grants'[1].id = grants[1].id
                /\ roleResource'.id = roleResource.id
                /\ role_permissions' = role_permissions
                /\ rolesTable' = rolesTable ]_vars

\* The create of a grant whose GRANT the database failed has ended with the
\* error, the one statement issued and no id
C26_Witness ==
    /\ out.op = "create"
    /\ "instance" \in DOMAIN out
    /\ out.fault = 2
    /\ out.err = queryError
    /\ Len(out.stmts) = 1
    /\ grants[1].id = ""

\* The create of a role whose statement the database failed has ended with
\* the error, the one statement issued and no id
C26_RoleWriteFailed ==
    /\ out.op = "create"
    /\ "verified" \in DOMAIN out
    /\ out.fault = 2
    /\ out.err = queryError
    /\ Len(out.stmts) = 1
    /\ roleResource.id = ""

-----------------------------------------------------------------------------
(* The provider configuration.  resourceData holds the provider's          *)
(* attributes system_keyspace_name and pw_encryption_algorithm;            *)
(* configureProvider makes meta of them.  The database of the deployment   *)
(* hashes passwords with the algorithm the configuration names.            *)
(***************************************************************************)

\* configureProvider(ctx, d): the composite literal it returns sets Cluster
\* and SystemKeyspaceName; pw_encryption_algorithm is not read, and the
\* field resourceRoleRead reads has the zero value
configureProvider(d) ==
    [ SystemKeyspaceName |-> d.system_keyspace_name, PwEncryptionAlgorithm |-> "" ]

\* A role of the state and of the catalog, under a provider configured
\* with either algorithm
ProviderInit ==
    /\ resourceData \in [ system_keyspace_name : { "system_auth", "auth2" },
                          pw_encryption_algorithm : { "bcrypt", "sha-512" } ]
    /\ providerConfig = configureProvider(resourceData)
    /\ \E password \in LegalPasswords, salt \in Salts :
        \E config \in { [ name |-> "r1", super_user |-> FALSE, login |-> TRUE,
                           password |-> password ] } :
            /\ roleResource = [ config |-> config, d |-> config, id |-> config.name ]
            /\ rolesTable = execRoleStatement({}, config.name, config.login,
                                config.super_user, password,
                                saltedHashOf(resourceData.pw_encryption_algorithm, salt,
                                             password))
    /\ out = RoleResult("none", NoRoleResult, 0)
    /\ keyspaceNameMatches = TRUE
    /\ phase = "validated"
    /\ diags = {}
    /\ id = ""
    /\ issued = {}
    /\ role_permissions = {}
    /\ grants = << >>
    /\ reconcile = << >>
    /\ TableIdle

\* Another client changes the password of the role; the database hashes it
\* with the algorithm of the deployment
DeploymentAlter ==
    /\ \E row \in rolesTable, password \in LegalPasswords, salt \in Salts :
        /\ password # row.password
        /\ rolesTable' = execRoleStatement(rolesTable, row.role, row.can_login,
                              row.is_superuser, password,
                              saltedHashOf(resourceData.pw_encryption_algorithm, salt,
                                           password))
    /\ out' = RoleResult("external", NoRoleResult, 0)
    /\ UNCHANGED roleResource
    /\ UNCHANGED nonRoleVars

ProviderNext ==
    \/ RoleRead
    \/ DeploymentAlter

ProviderSpec == ProviderInit /\ [][ProviderNext]_vars

\* C27: the algorithm tag chosen at provider configuration time is the tag
\* role Read passes to the credential verifier: with sha-512 configured Read
\* compares by SHA-512 hex digest, with bcrypt configured by bcrypt.
C27_ConfiguredTagVerifies ==
    (out.op = "read" /\ Verified) =>
        out.verified.checkErr = checkPassword(resourceData.pw_encryption_algorithm,
                                              out.verified.saltedHash,
                                              out.verified.password)

\* With bcrypt configured, Read compares by bcrypt
C27_BcryptConfigured ==
    (out.op = "read" /\ Verified /\ resourceData.pw_encryption_algorithm = "bcrypt") =>
        out.verified.checkErr = CompareHashAndPassword(out.verified.saltedHash,
                                                       out.verified.password)

-----------------------------------------------------------------------------
\* C28: a grant Read that finds the grant absent from the catalog returns
\* the error "Grant does not exist" and leaves the id and every attribute of
\* the resource as they were (the id is not cleared); a Read that finds the
\* grant present leaves the five Grant fields and the id as they were.
C28_ReadKeepsResource ==
    [][ (out'.op = "read" /\ out'.checked) =>
            IF out'.exists
            THEN /\ out'.err = ""
                 /\ grants'[out'.instance].id = grants[out'.instance].id
                 /\ parseData(grants'[out'.instance].d).grant
                        = parseData(grants[out'.instance].d).grant
            ELSE /\ out'.err = "Grant does not exist"
                 /\ grants' = grants
                 /\ grants'[out'.instance].id # "" ]_vars

\* A Read found the grant of a resource with an id absent
C28_Witness ==
    /\ out.op = "read"
    /\ out.checked
    /\ ~out.exists
    /\ out.err = "Grant does not exist"
    /\ grants[out.instance].id # ""

\* A Read found the grant present
C28_PresentRead ==
    /\ out.op = "read"
    /\ out.checked
    /\ out.exists
    /\ grants[out.instance].id # ""

-----------------------------------------------------------------------------
\* C29: role Read is idempotent: of two consecutive Reads of the same role,
\* with no change of the catalog between them and the same cluster calls
\* succeeding, the second leaves password, login, super_user, name and id as
\* the first left them, whether the first stored the plaintext or the hash.
C29_ReadIdempotent ==
    [][ (out.op = "read" /\ out'.op = "read" /\ out'.fault = out.fault
            /\ rolesTable' = rolesTable)
        => roleResource' = roleResource ]_vars

\* The second of two Reads that found the role, where the first had stored
\* the hash in place of a password that did not verify
C29_Witness ==
    /\ out.op = "read"
    /\ Verified
    /\ out.verified.password = out.verified.saltedHash
    /\ roleResource.d.password = out.verified.saltedHash
    /\ roleResource.config.password # out.verified.saltedHash

\* A Read that kept the plaintext it had verified
C29_PlaintextKept ==
    /\ out.op = "read"
    /\ Verified
    /\ out.verified.checkErr = ""
    /\ roleResource.d.password = out.verified.password
    /\ out.verified.password # out.verified.saltedHash

-----------------------------------------------------------------------------
(* Concurrent operations of the table resource.  Terraform runs the        *)
(* operations of independent resources concurrently in one provider        *)
(* process.  gocqltable keeps one package-level session: SetDefaultSession *)
(* writes it, NewKeyspace copies it into the Keyspace, and Create and Drop *)
(* of a table execute on the session of its Keyspace.  A session is named  *)
(* by the operation that created it; 0 is the nil session.                 *)
(***************************************************************************)

\* The operations that run concurrently
NumTableOps == 2

\* d.Get("name") of operation i
tableName(i) == IF i % 2 = 1 THEN "t1" ELSE "t2"

\* A table operation before its first step
tableOperation(kind, i) ==
    [ kind |-> kind, name |-> tableName(i), pc |-> "start", session |-> 0,
      captured |-> 0, ran |-> FALSE, used |-> 0, usedOpen |-> FALSE,
      err |-> "", id |-> "" ]

TableInit ==
    /\ tableOps \in { [ i \in 1..NumTableOps |-> tableOperation(kinds[i], i) ] :
                        kinds \in [ 1..NumTableOps -> { "create", "delete" } ] }
    /\ keyspaceTables \in SUBSET { "t1", "t2" }
    /\ defaultSession = 0
    /\ openSessions = {}
    /\ resourceData = << >>
    /\ keyspaceNameMatches = TRUE
    /\ providerConfig = [ SystemKeyspaceName |-> "system_auth" ]
    /\ phase = "validated"
    /\ diags = {}
    /\ id = ""
    /\ out = [ op |-> "none" ]
    /\ issued = {}
    /\ role_permissions = {}
    /\ grants = << >>
    /\ rolesTable = {}
    /\ roleResource = NoRole
    /\ reconcile = << >>

nonTableVars == <<resourceData, keyspaceNameMatches, providerConfig, phase, diags, id, out, issued, catalogVars, roleVars, reconcile>>

\* cluster.CreateSession() and gocqltable.SetDefaultSession(session): the
\* session is installed before sessionCreateError is looked at, so a failed
\* creation installs the nil session and returns
TableCreateSession(i) ==
    /\ tableOps[i].pc = "start"
    /\ \E sessionOk \in BOOLEAN :
        IF sessionOk
        THEN /\ defaultSession' = i
             /\ openSessions' = openSessions \cup { i }
             /\ tableOps' = [ tableOps EXCEPT ![i].session = i, ![i].pc = "opened" ]
        ELSE /\ defaultSession' = 0
             /\ openSessions' = openSessions
             /\ tableOps' = [ tableOps EXCEPT ![i].err = sessionCreationError,
                                               ![i].pc = "done" ]
    /\ UNCHANGED keyspaceTables
    /\ UNCHANGED nonTableVars

\* gocqltable.NewKeyspace(keyspaceName) and keyspace.NewTable(...): the
\* Keyspace takes the default session of this moment
TableNewKeyspace(i) ==
    /\ tableOps[i].pc = "opened"
    /\ tableOps' = [ tableOps EXCEPT ![i].captured = defaultSession,
                                      ![i].pc = "keyspace" ]
    /\ UNCHANGED <<defaultSession, openSessions, keyspaceTables>>
    /\ UNCHANGED nonTableVars

\* What the statement of operation op does on the tables, run on a session
\* that is open: CREATE TABLE of a table that exists and DROP TABLE of one
\* that does not are rejected
tableStatement(tables, op, execOk) ==
    IF ~execOk \/ (op.kind = "create") = (op.name \in tables)
    THEN [ tables |-> tables, err |-> queryError ]
    ELSE IF op.kind = "create"
    THEN [ tables |-> tables \cup { op.name }, err |-> "" ]
    ELSE [ tables |-> tables \ { op.name }, err |-> "" ]

\* resourceTable.Create() or resourceTable.Drop(): the statement executes
\* on the session of the Keyspace; on a closed session it returns an error
\* and on the nil session it fails before any statement reaches the database
TableExec(i) ==
    /\ tableOps[i].pc = "keyspace"
    /\ \E execOk \in BOOLEAN :
        \E r \in { IF tableOps[i].captured \in openSessions
                    THEN tableStatement(keyspaceTables, tableOps[i], execOk)
                    ELSE [ tables |-> keyspaceTables, err |-> queryError ] } :
            /\ keyspaceTables' = r.tables
            /\ tableOps' = [ tableOps EXCEPT
                    ![i].ran = TRUE,
                    ![i].used = tableOps[i].captured,
                    ![i].usedOpen = tableOps[i].captured \in openSessions,
                    ![i].err = r.err,
                    ![i].pc = IF r.err = "" /\ tableOps[i].kind = "create"
                              THEN "read" ELSE "closing" ]
    /\ UNCHANGED <<defaultSession, openSessions>>
    /\ UNCHANGED nonTableVars

\* d.SetId(name) and resourceTableRead at the end of resourceTableCreate:
\* the read opens and closes a session of its own and does not touch the
\* default session
TableRead(i) ==
    /\ tableOps[i].pc = "read"
    /\ \E readOk \in BOOLEAN :
        tableOps' = [ tableOps EXCEPT ![i].id = tableOps[i].name,
                                      ![i].err = IF readOk THEN "" ELSE sessionCreationError,
                                      ![i].pc = "closing" ]
    /\ UNCHANGED <<defaultSession, openSessions, keyspaceTables>>
    /\ UNCHANGED nonTableVars

\* defer session.Close(): the operation closes the session it created
TableClose(i) ==
    /\ tableOps[i].pc = "closing"
    /\ openSessions' = openSessions \ { tableOps[i].session }
    /\ tableOps' = [ tableOps EXCEPT ![i].pc = "done" ]
    /\ UNCHANGED <<defaultSession, keyspaceTables>>
    /\ UNCHANGED nonTableVars

TableNext ==
    \E i \in 1..NumTableOps :
        \/ TableCreateSession(i)
        \/ TableNewKeyspace(i)
        \/ TableExec(i)
        \/ TableRead(i)
        \/ TableClose(i)

TableSpec == TableInit /\ [][TableNext]_vars

\* C30: under every interleaving of concurrent table Create and Delete
\* operations, each operation executes its CREATE or DROP on the session it
\* opened itself, and that session is open when the statement runs; none
\* runs its statement on a session another operation installed as the
\* default or has closed.
C30_StatementOnOwnOpenSession ==
    \A i \in DOMAIN tableOps :
        tableOps[i].ran => (tableOps[i].used = tableOps[i].session /\ tableOps[i].usedOpen)

\* A statement that ran on the session its operation created found it open
C30_OwnSessionIsOpen ==
    \A i \in DOMAIN tableOps :
        (tableOps[i].ran /\ tableOps[i].used = tableOps[i].session) => tableOps[i].usedOpen

\* An operation ran its statement on the session of the other one after
\* that one had closed it
C30_ClosedSessionUsed ==
    \E i \in DOMAIN tableOps :
        /\ tableOps[i].ran
        /\ tableOps[i].used \notin { 0, tableOps[i].session }
        /\ ~tableOps[i].usedOpen

\* An operation ran its statement on the open session of the other one
C30_ForeignSessionUsed ==
    \E i \in DOMAIN tableOps :
        /\ tableOps[i].ran
        /\ tableOps[i].used \notin { 0, tableOps[i].session }
        /\ tableOps[i].usedOpen
        /\ tableOps[i].err = ""

=============================================================================
